---- MODULE Spec2Model ----
(***************************************************************************)
(* Verification model of the Okta Terraform backup/restore and migration   *)
(* scripts.                                                                *)
(*                                                                         *)
(* Part 1 (specification Spec): restore_state.py.  One invocation of main  *)
(* walks through restore_s3_state_version and, in --full-restore mode,     *)
(* run_terraform_apply.  The object store is a versioned S3 object: every  *)
(* write appends a version with a freshly issued id, old versions stay     *)
(* retrievable by id, head_object reports the id of the latest version.    *)
(* Every boto3 call may fail with an exception.                            *)
(*                                                                         *)
(* Part 2 (specification SpecHttp): the 429 retry of the REST clients.     *)
(***************************************************************************)
EXTENDS Integers, Sequences, FiniteSets, TLC

(* ------------------------------ bounds -------------------------------- *)

\* invocations of restore_state.main in one behaviour
MaxRuns == 2
\* versions written by anyone but restore_s3_state_version
MaxWrites == 1
\* further versions other writers write while a restore races them
MaxRaces == 1
\* distinct byte contents of the state file
NumContents == 2

\* calls of a token-based client in one behaviour
MaxTokenCalls == 2
\* times the clock of a token-based client advances
MaxAdvances == 1

\* grants in the input of import_grants
MaxGrants == 2
\* groups in the input of import_memberships
MaxGroups == 2
\* member emails of one group in the input of import_memberships
MaxMembers == 2

\* rows of the CSV file count_csv_rows reads
MaxRows == 5

\* users export_users_to_csv writes
MaxUsers == 2

\* pages of a paginated collection
MaxChain == 3
\* requests one paginated fetch sends
MaxFetches == 4

\* entries of the attribute list of a gateway application's configuration
MaxDesired == 2
\* calls of the application manager in one behaviour
MaxManagerCalls == 2

Contents == 1..NumContents

\* a version id the store never issued (ids are issued from 1 upwards)
NoSuchVersion == 0

Modes == {"restore_state", "full_restore", "list_versions"}

(* ------------------------------- state -------------------------------- *)

VARIABLES
    \* --- the environment of restore_state.py
    HAS_BOTO3,      \* module constant set by the import at lines 48-53
    versions,       \* the state object's version list, oldest first
    nextId,         \* the id the store issues on the next write
    planFile,       \* restore.tfplan: 0 absent, 1 written by this invocation,
                    \* -1 left there before this invocation started
    racing,         \* whether other writers may write while a restore runs
    writes,         \* versions written so far by other writers
    \* --- one invocation of main (the process memory; gone at exit)
    runs,           \* invocations started so far
    pc,             \* position of the running invocation ("idle": none)
    args,           \* parsed command line of the running invocation
    current,        \* restore_s3_state_version: current.get("version_id")
    tmp_path,       \* the temporary download file: [exists, content]
    result,         \* what restore_s3_state_version returned
    tf,             \* what run_terraform_apply returned: its "status"
    raised,         \* the exception that ended the invocation ("" if none)
    exitCode,       \* process exit status (-1 while running)
    rcs,            \* os.path.isdir(terraform_dir) and the exit statuses of
                    \* init, plan, apply as this invocation saw them (-1: not yet)
    \* --- history variables
    ops,            \* remote calls and subprocesses of this invocation, in order
    pre,            \* versions when this invocation started
    outcome,        \* this invocation's state restore, as seen at its return
    last,           \* the previous invocation's state restore, if nobody
                    \* wrote the object since
    applied,        \* the plan file terraform apply consumed
    uploaded        \* the version this invocation's upload created and the
                    \* latest version just before it

VARIABLES
    \* --- a REST client object and the clock
    kind,                   \* which client class this is
    clock,                  \* time.time(), in half seconds
    rate_limit_remaining,   \* self.rate_limit_remaining
    rate_limit_reset,       \* self.rate_limit_reset (seconds)
    \* --- one call of a client method
    calls,                  \* calls started so far
    hpc,                    \* "idle", "send", "alt", "done"
    fn,                     \* the method called
    attempt,                \* _make_request: the loop variable
    response,               \* the response received last
    returned,               \* what the call returned: a response or a status
    \* --- history variables
    responses,              \* the answers to the request sent last, in order
    slept,                  \* half seconds slept during this call
    t0,                     \* the clock at the first attempt of this call
    page                    \* get_all_apps: the page being fetched

VARIABLES
    \* --- a token-based client object and its clock
    client,                 \* which client class this is
    now,                    \* time.time(), in seconds
    access_token,           \* self._access_token / self.token
    token_expiry,           \* self._token_expiry / self.token_expiry
    issued,                 \* tokens the token endpoint issued so far
    tcalls,                 \* calls started so far
    advances,               \* times the clock advanced so far
    \* --- one call of a client method
    tpc,                    \* "idle", "send", "refresh", "retry", "done", "exit"
    tfn,                    \* the method called
    retry_on_401,           \* _request: the parameter of the running activation
    bearer,                 \* the token the running activation got
    tret,                   \* how the call ended and the status it carries
    \* --- history variables
    sent,                   \* requests sent during this call, in order
    answers,                \* statuses the API endpoint answered in this call
    lastGet,                \* the latest call of the token function
    prevGet                 \* the one before

VARIABLES
    \* --- one run of an importer
    importer,               \* which importer runs
    idry,                   \* args.dry_run
    ienv,                   \* OKTA_ORG_NAME and OKTA_API_TOKEN are both set
    exclude_apps,           \* import_grants: excluded_apps
    ipc,                    \* "idle", "loop", "members", "exited"
    total,                      \* grants / groups in the loaded input
    idx,                      \* grants / groups done
    members,                \* member emails of the group being processed
    midx,                      \* member emails done
    found,                  \* the target group of the group being processed
    seen,                   \* group names read so far (the keys of a dict)
    results,                \* the summary counters (results / stats)
    iret,                   \* process exit status (-1 while running)
    \* --- history variables
    shadow,                 \* the counters of a dry-run pass over the same
                            \* input read so far
    http,                   \* requests sent so far, by method
    item,                   \* the entry of the input processed last
    called,                 \* the create_grant / add_user_to_group call made
                            \* for it
    allok,                  \* every mutating call so far succeeded
    sawError,               \* a mutating call so far failed
    pairs                   \* member emails of found groups read so far:
                            \* present in the target and absent from it

VARIABLES
    \* --- one run of create_backup_manifest.py
    mpc,                    \* "main", "files", "csv", "counted", "exit"
    pos,                    \* index of the expected file looked at next
    manifest,               \* the manifest built so far
    count,                  \* count_csv_rows: count
    mexit,                  \* process exit status (-1 while running)
    mraised,                \* the exception that ended the run and the file
                            \* it came from ("" if none)
    output_file,            \* the manifest file: 0 absent, -1 left there
                            \* before this run, 1 written by this run
    \* --- history variables
    present,                \* expected files os.path.exists found so far
    read                    \* rows the reader yielded so far, by kind

VARIABLES
    \* --- one run of backup_state.py
    bpc,                    \* "idle", "head", "download", "local", "manifest",
                            \* "exit"
    bargs,                  \* the parsed command line
    state_info,             \* main: state_info
    state_file,             \* terraform.tfstate in the output directory
    MANIFEST,               \* MANIFEST.json in the output directory
    bexit,                  \* process exit status (-1 while running)
    \* --- restore_state.main started with --manifest
    resolved,               \* bucket, key, region and version_id it resolved
    \* --- history variables
    bops,                   \* object-store calls of the backup, in order
    bseen                   \* the version list as the metadata read and the
                            \* download found it

VARIABLES
    \* --- one call of a paginated fetch
    fpc,                    \* "idle", "loop", "done"
    fetcher,                \* the method called
    chain,                  \* pages of the collection: page p carries a
                            \* 'next' link iff p < chain
    url,                    \* the page asked for next (0: url is None)
    fetched,                \* the records collected so far
    fret,                   \* how the call ended and what it returned
    \* --- history variables
    requested               \* the pages asked for and the answers, in order

VARIABLES
    \* --- one run of export_users_to_csv.py
    xenv,                   \* which of OKTA_ORG_NAME, OKTA_API_TOKEN are set
    xpc,                    \* "main", "fetch", "open", "comments", "rows",
                            \* "exit"
    users,                  \* len(user_data)
    xsent,                  \* HTTP requests sent so far
    csv_file,               \* the lines of the output file (NoFile: none)
    csv_is_open,            \* the output file is open for writing
    xexit,                  \* process exit status (-1 while running)
    \* --- one run of import_opa_resources.py
    oenv,                   \* which of team, key, secret are given
    odry,                   \* args.dry_run
    opc,                    \* "main", "import", "exit"
    osent,                  \* HTTP requests sent so far
    ofiles,                 \* the output files were written
    oexit                   \* process exit status (-1 while running)

VARIABLES
    \* --- the Access Gateway and its application manager
    gateway,                \* label of each application -> its attributes
                            \* by name
    put_replaces,           \* a PUT replaces the attribute (else merges)
    config,                 \* the application configuration deployed
    mcalls,                 \* calls of the manager so far
    mcall,                  \* the last call: how it ended, its result, its
                            \* requests and the gateway before it
    mprev                   \* the call before the last

httpVars == << kind, clock, rate_limit_remaining, rate_limit_reset, calls, hpc,
               fn, attempt, response, returned, responses, slept, t0, page >>

restoreVars == << HAS_BOTO3, versions, nextId, planFile, racing, writes, runs,
                  pc, args, current, tmp_path, result, tf, raised, exitCode,
                  rcs, ops, pre, outcome, last, applied, uploaded >>

tokenVars == << client, now, access_token, token_expiry, issued, tcalls,
                advances, tpc, tfn, retry_on_401, bearer, tret, sent, answers,
                lastGet, prevGet >>

importVars == << importer, idry, ienv, exclude_apps, ipc, total, idx, members, midx, found,
                 seen, results, iret, shadow, http, item, called, allok,
                 sawError, pairs >>

manifestVars == << mpc, pos, manifest, count, mexit, mraised, output_file,
                  present, read >>

pageVars == << fpc, fetcher, chain, url, fetched, fret, requested >>

exportVars == << xenv, xpc, users, xsent, csv_file, csv_is_open, xexit >>

opaVars == << oenv, odry, opc, osent, ofiles, oexit >>

oagVars == << gateway, put_replaces, config, mcalls, mcall, mprev >>

backupVars == << bpc, bargs, state_info, state_file, MANIFEST, bexit, resolved,
                bops, bseen >>

\* what the actions of one part leave alone
notRestoreVars == << httpVars, tokenVars, importVars, manifestVars, pageVars,
                     exportVars, opaVars, oagVars, backupVars >>
notHttpVars == << restoreVars, tokenVars, importVars, manifestVars, pageVars,
                  exportVars, opaVars, oagVars, backupVars >>
notTokenVars == << restoreVars, httpVars, importVars, manifestVars, pageVars,
                   exportVars, opaVars, oagVars, backupVars >>
notImportVars == << restoreVars, httpVars, tokenVars, manifestVars, pageVars,
                    exportVars, opaVars, oagVars, backupVars >>
notManifestVars == << restoreVars, httpVars, tokenVars, importVars, pageVars,
                      exportVars, opaVars, oagVars, backupVars >>
notPageVars == << restoreVars, httpVars, tokenVars, importVars, manifestVars,
                  exportVars, opaVars, oagVars, backupVars >>
notExportVars == << restoreVars, httpVars, tokenVars, importVars,
                    manifestVars, pageVars, opaVars, oagVars, backupVars >>
notOpaVars == << restoreVars, httpVars, tokenVars, importVars, manifestVars,
                 pageVars, exportVars, oagVars, backupVars >>
notOagVars == << restoreVars, httpVars, tokenVars, importVars, manifestVars,
                 pageVars, exportVars, opaVars, backupVars >>
notBackupVars == << restoreVars, httpVars, tokenVars, importVars,
                    manifestVars, pageVars, exportVars, opaVars, oagVars >>

\* what the actions of backup_state.py and restore_state.py leave alone
notStateVars == << httpVars, tokenVars, importVars, manifestVars, pageVars,
                   exportVars, opaVars, oagVars >>

(* --------------------------- the object store -------------------------- *)

Ids(vs) == { vs[i].id : i \in 1..Len(vs) }

\* head_object: the id of the latest version
LatestId(vs) == vs[Len(vs)].id

LatestContent(vs) == vs[Len(vs)].content

\* the content stored under a version id that exists
ContentOf(vs, id) == vs[CHOOSE i \in 1..Len(vs) : vs[i].id = id].content

\* a write by anyone: the store appends a version under a fresh id
PutObject(vs, id, content) == Append(vs, [id |-> id, content |-> content])

IsPrefix(s, t) == Len(s) <= Len(t) /\ \A i \in 1..Len(s) : s[i] = t[i]

NoResult == [status |-> "none", previous_version |-> NoSuchVersion,
             restored_from |-> NoSuchVersion, new_version |-> NoSuchVersion]

NoArgs == [mode |-> "none", dry_run |-> TRUE, version_id |-> NoSuchVersion]

NoTmp == [exists |-> FALSE, content |-> 0]

NoUpload == [id |-> NoSuchVersion, before |-> NoSuchVersion]

NoRcs == [isdir |-> -1, init |-> -1, plan |-> -1, apply |-> -1]

NoOutcome == [status |-> "none", target |-> NoSuchVersion, dry_run |-> TRUE,
              before |-> NoSuchVersion, latest |-> NoSuchVersion,
              content_ok |-> FALSE]

(* -------------------- restore_s3_state_version: decisions --------------- *)

\* line 135 with the comparison on content instead of on the version id
already_current_by_content(cur, target) ==
    target \in Ids(versions) /\ ContentOf(versions, cur) = ContentOf(versions, target)

\* line 135 without the early return
already_current_never(cur, target) == FALSE

\* line 135: current.get("version_id") == target_version_id
already_current(cur, target) == cur = target

\* line 139 without the dry-run return
dry_run_ignored(dry) == FALSE

\* line 139: if dry_run
dry_run_stops(dry) == dry

\* lines 152-155 without ExtraArgs: the latest version is downloaded
download_latest(target) == LatestContent(versions)

\* lines 152-155: download_file(..., ExtraArgs={"VersionId": target_version_id})
download_file(target) == ContentOf(versions, target)

\* lines 172-174 left out: the temporary file stays
finally_skipped(tmp) == tmp

\* the finally clause, lines 172-174: the temporary file is removed if it
\* exists
finally_unlink(tmp) == NoTmp

\* line 159: upload_file(tmp_path, bucket, key) creates a new latest version
upload_file(content) == PutObject(versions, nextId, content)

(* ------------------------------ Init ----------------------------------- *)

InitRestore ==
    /\ HAS_BOTO3 \in BOOLEAN
    /\ \E c \in Contents : versions = << [id |-> 1, content |-> c] >>
    /\ nextId = 2
    /\ planFile \in {0, -1}
    /\ racing \in BOOLEAN
    /\ writes = 0
    /\ runs = 0
    /\ pc = "idle"
    /\ args = NoArgs
    /\ current = NoSuchVersion
    /\ tmp_path = NoTmp
    /\ result = NoResult
    /\ tf = "none"
    /\ raised = ""
    /\ exitCode = -1
    /\ rcs = NoRcs
    /\ ops = << >>
    /\ pre = << >>
    /\ outcome = NoOutcome
    /\ last = NoOutcome
    /\ applied = 0
    /\ uploaded = NoUpload

(* ------------------------- the environment ----------------------------- *)

\* Someone else (terraform itself, an operator) writes the state object.
OtherWrite ==
    /\ writes < MaxWrites + (IF racing THEN MaxRaces ELSE 0)
    /\ pc = "idle" \/ racing
    /\ \E c \in Contents : versions' = PutObject(versions, nextId, c)
    /\ nextId' = nextId + 1
    /\ writes' = writes + 1
    /\ last' = NoOutcome
    /\ outcome' = NoOutcome
    /\ UNCHANGED << HAS_BOTO3, planFile, racing, runs, pc, args, current,
                    tmp_path, result, tf, raised, exitCode, rcs, ops, pre,
                    applied, uploaded >>
    /\ UNCHANGED notRestoreVars

(* ------------------------------ main ----------------------------------- *)

\* lines 344-368 in the other order: terraform before the state restore
first_step_terraform_first(mode) ==
    IF mode = "list_versions" THEN "list"
    ELSE IF mode = "full_restore" THEN "terraform" ELSE "restore"

\* lines 333-359: --list-versions returns early; both restore modes begin
\* with the state restore
first_step(mode) == IF mode = "list_versions" THEN "list" ELSE "restore"

\* how the command line and the manifest resolve the version to restore:
\* "s3" is --version-id with --state-bucket and --state-key, or a manifest
\* whose terraform_state.source is "s3" (lines 302-316); "usage" is a command
\* line parser.error rejects (lines 296-300); "invalid" is a manifest that
\* load_manifest rejects (lines 58-69); "local" is a manifest of a local
\* state (lines 319-321)
Configs == {"s3", "usage", "invalid", "local"}

\* lines 252-331 and 333-359: the command line is parsed, the manifest is
\* loaded and main dispatches on the mode.  parser.error ends the process
\* with status 2, sys.exit(1) and an exception of load_manifest with status 1.
\* --auto-approve only adds an argument to the apply command (lines 227-228)
\* and is not kept.
Start ==
    /\ pc = "idle"
    /\ runs < MaxRuns
    /\ \E m \in Modes, d \in BOOLEAN, t \in Ids(versions) \cup {NoSuchVersion} :
         args' = [mode |-> m, dry_run |-> d, version_id |-> t]
    /\ runs' = runs + 1
    /\ \E cfg \in Configs :
         CASE cfg = "usage" ->
                /\ pc' = "exit"
                /\ exitCode' = 2
                /\ UNCHANGED raised
           [] cfg = "invalid" ->
                /\ pc' = "exit"
                /\ exitCode' = 1
                /\ raised' = "ValueError"
           [] cfg = "local" ->
                /\ pc' = "exit"
                /\ exitCode' = 1
                /\ UNCHANGED raised
           [] cfg = "s3" ->
                /\ pc' = first_step(args'.mode)
                /\ UNCHANGED << raised, exitCode >>
    /\ pre' = versions
    /\ planFile' = IF planFile # 0 THEN -1 ELSE 0
    /\ UNCHANGED << HAS_BOTO3, versions, nextId, racing, writes, current,
                    tmp_path, result, tf, rcs, ops, outcome, last, applied, uploaded >>
    /\ UNCHANGED notRestoreVars

\* the interpreter ends; the next invocation starts from a fresh process.
\* A run that called neither the restore nor terraform leaves the history of
\* the object as it was.
Exit ==
    /\ pc = "exit"
    /\ pc' = "idle"
    /\ last' = IF outcome.status = "none" /\ rcs.isdir = -1 THEN last ELSE outcome
    /\ args' = NoArgs
    /\ current' = NoSuchVersion
    /\ tmp_path' = NoTmp
    /\ result' = NoResult
    /\ tf' = "none"
    /\ raised' = ""
    /\ exitCode' = -1
    /\ rcs' = NoRcs
    /\ ops' = << >>
    /\ pre' = << >>
    /\ outcome' = NoOutcome
    /\ applied' = 0
    /\ uploaded' = NoUpload
    /\ UNCHANGED << HAS_BOTO3, versions, nextId, planFile, racing, writes, runs >>
    /\ UNCHANGED notRestoreVars

\* an uncaught exception ends the interpreter with status 1
Raise(exc, op) ==
    /\ pc' = "exit"
    /\ raised' = exc
    /\ exitCode' = 1
    /\ ops' = IF op = "" THEN ops ELSE Append(ops, op)

\* what the history keeps of a state restore
Outcome(status, vs, cur) ==
    [status |-> status, target |-> args.version_id, dry_run |-> args.dry_run,
     before |-> cur, latest |-> LatestId(vs),
     content_ok |-> /\ args.version_id \in Ids(vs)
                    /\ LatestContent(vs) = ContentOf(vs, args.version_id)]

\* lines 89-108 and 333-342: --list-versions
list_state_versions ==
    /\ pc = "list"
    /\ \/ /\ ~HAS_BOTO3
          /\ Raise("RuntimeError", "")
       \/ /\ HAS_BOTO3
          /\ \E ok \in BOOLEAN :
               IF ok
               THEN /\ pc' = "exit"
                    /\ exitCode' = 0
                    /\ ops' = Append(ops, "list")
                    /\ UNCHANGED raised
               ELSE Raise("ClientError", "list")
    /\ UNCHANGED << HAS_BOTO3, versions, nextId, planFile, racing, writes, runs,
                    args, current, tmp_path, result, tf, rcs, pre, outcome,
                    last, applied, uploaded >>
    /\ UNCHANGED notRestoreVars

(* ----------------------- restore_s3_state_version ----------------------- *)

\* the restore function returns to main (line 356)
Return(res, vs, cur) ==
    /\ result' = res
    /\ pc' = "after_restore"
    /\ outcome' = Outcome(res.status, vs, cur)
    /\ UNCHANGED << raised, exitCode >>

\* an exception leaves the restore function and main
RaiseInRestore(exc, op) ==
    /\ Raise(exc, op)
    /\ outcome' = Outcome("raised", versions, current)
    /\ UNCHANGED result

\* lines 125-149: the boto3 check, the metadata read of the current version,
\* the already-current and the dry-run returns, the temporary file
restore_head ==
    /\ pc = "restore"
    /\ \/ /\ ~HAS_BOTO3
          /\ RaiseInRestore("RuntimeError", "")
          /\ UNCHANGED << current, tmp_path >>
       \/ /\ HAS_BOTO3
          /\ \E ok \in BOOLEAN :
               IF ~ok
               THEN /\ RaiseInRestore("ClientError", "head")
                    /\ UNCHANGED << current, tmp_path >>
               ELSE /\ current' = LatestId(versions)
                    /\ ops' = Append(ops, "head")
                    /\ IF already_current(current', args.version_id)
                       THEN /\ Return([NoResult EXCEPT !.status = "already_current"],
                                      versions, current')
                            /\ UNCHANGED tmp_path
                       ELSE IF dry_run_stops(args.dry_run)
                       THEN /\ Return([NoResult EXCEPT !.status = "dry_run"], versions,
                                      current')
                            /\ UNCHANGED tmp_path
                       ELSE /\ tmp_path' = [exists |-> TRUE, content |-> 0]
                            /\ pc' = "download"
                            /\ UNCHANGED << result, raised, exitCode, outcome >>
    /\ UNCHANGED << HAS_BOTO3, versions, nextId, planFile, racing, writes, runs,
                    args, tf, rcs, pre, last, applied, uploaded >>
    /\ UNCHANGED notRestoreVars

\* lines 151-155 and the finally clause: fetch the target version's bytes
restore_download ==
    /\ pc = "download"
    /\ \E ok \in BOOLEAN :
         IF ok /\ args.version_id \in Ids(versions)
         THEN /\ tmp_path' = [exists |-> TRUE,
                              content |-> download_file(args.version_id)]
              /\ ops' = Append(ops, "download")
              /\ pc' = "upload"
              /\ UNCHANGED << result, raised, exitCode, outcome >>
         ELSE /\ tmp_path' = finally_unlink(tmp_path)
              /\ RaiseInRestore("ClientError", "download")
    /\ UNCHANGED << HAS_BOTO3, versions, nextId, planFile, racing, writes, runs,
                    args, current, tf, rcs, pre, last, applied, uploaded >>
    /\ UNCHANGED notRestoreVars

\* lines 157-159 and the finally clause: write the bytes back as a new version
restore_upload ==
    /\ pc = "upload"
    /\ \E ok \in BOOLEAN :
         IF ok
         THEN /\ versions' = upload_file(tmp_path.content)
              /\ nextId' = nextId + 1
              /\ uploaded' = [id |-> nextId, before |-> LatestId(versions)]
              /\ ops' = Append(ops, "upload")
              /\ pc' = "head2"
              /\ UNCHANGED << tmp_path, result, raised, exitCode, outcome >>
         ELSE /\ tmp_path' = finally_unlink(tmp_path)
              /\ RaiseInRestore("S3UploadFailedError", "upload")
              /\ UNCHANGED << versions, nextId, uploaded >>
    /\ UNCHANGED << HAS_BOTO3, planFile, racing, writes, runs, args, current, tf,
                    rcs, pre, last, applied >>
    /\ UNCHANGED notRestoreVars

\* lines 161-174: read the new latest id, build the result, remove the file
restore_head2 ==
    /\ pc = "head2"
    /\ tmp_path' = finally_unlink(tmp_path)
    /\ \E ok \in BOOLEAN :
         IF ok
         THEN /\ ops' = Append(ops, "head")
              /\ Return([status |-> "restored", previous_version |-> current,
                         restored_from |-> args.version_id,
                         new_version |-> LatestId(versions)], versions, current)
         ELSE RaiseInRestore("ClientError", "head")
    /\ UNCHANGED << HAS_BOTO3, versions, nextId, planFile, racing, writes, runs,
                    args, current, tf, rcs, pre, last, applied, uploaded >>
    /\ UNCHANGED notRestoreVars

\* lines 361-365: neither already_current nor restored, and not a dry run
restore_failed(status, dry) ==
    status # "already_current" /\ status # "restored" /\ ~dry

\* lines 361-368 and 387-395: main looks at the status
main_after_restore ==
    /\ pc = "after_restore"
    /\ IF restore_failed(result.status, args.dry_run)
       THEN pc' = "exit" /\ exitCode' = 1
       ELSE IF args.mode = "full_restore"
       THEN pc' = "terraform" /\ UNCHANGED exitCode
       ELSE pc' = "exit" /\ exitCode' = 0
    /\ UNCHANGED << HAS_BOTO3, versions, nextId, planFile, racing, writes, runs,
                    args, current, tmp_path, result, tf, raised, rcs, ops, pre,
                    outcome, last, applied, uploaded >>
    /\ UNCHANGED notRestoreVars

(* --------------------------- run_terraform_apply ------------------------ *)

ExitCodes == {0, 1}

\* line 212 with the plan's exit status not looked at
plan_failed_unchecked(rc) == FALSE

\* lines 197 and 212: returncode != 0
failed(rc) == rc # 0

\* line 212: plan_result.returncode != 0
plan_failed(rc) == failed(rc)

\* lines 219-221 left out of the dry-run branch: the plan file stays
unlink_skipped(pf) == pf

\* lines 219-221 and 241-243: os.unlink(plan_file) if it exists
unlink(pf) == 0

\* lines 216-222: the cleanup of the dry-run (plan-only) pass
unlink_after_dry_run(pf) == unlink(pf)

TerraformReturn(status) ==
    /\ tf' = status
    /\ pc' = "after_terraform"
    /\ UNCHANGED << raised, exitCode >>

\* lines 183-199: the directory check, then terraform init
terraform_init ==
    /\ pc = "terraform"
    /\ \E isdir \in BOOLEAN :
         IF ~isdir
         THEN /\ Raise("FileNotFoundError", "")
              /\ rcs' = [rcs EXCEPT !.isdir = 0]
              /\ UNCHANGED tf
         ELSE \E rc \in ExitCodes :
                /\ rcs' = [rcs EXCEPT !.isdir = 1, !.init = rc]
                /\ ops' = Append(ops, "init")
                /\ IF failed(rc)
                   THEN TerraformReturn("init_failed")
                   ELSE pc' = "plan" /\ UNCHANGED << tf, raised, exitCode >>
    /\ UNCHANGED << HAS_BOTO3, versions, nextId, planFile, racing, writes, runs,
                    args, current, tmp_path, result, pre, outcome, last, applied, uploaded >>
    /\ UNCHANGED notRestoreVars

\* lines 201-222: terraform plan -out=restore.tfplan writes the plan file
\* when it succeeds; then the dry-run stop
terraform_plan ==
    /\ pc = "plan"
    /\ \E rc \in ExitCodes :
         /\ rcs' = [rcs EXCEPT !.plan = rc]
         /\ ops' = Append(ops, "plan")
         /\ LET written == IF rc = 0 THEN 1 ELSE planFile
            IN  IF plan_failed(rc)
                THEN /\ TerraformReturn("plan_failed")
                     /\ planFile' = written
                ELSE IF args.dry_run
                THEN /\ planFile' = unlink_after_dry_run(written)
                     /\ TerraformReturn("dry_run")
                ELSE /\ planFile' = written
                     /\ pc' = "apply"
                     /\ UNCHANGED << tf, raised, exitCode >>
    /\ UNCHANGED << HAS_BOTO3, versions, nextId, racing, writes, runs, args,
                    current, tmp_path, result, pre, outcome, last, applied, uploaded >>
    /\ UNCHANGED notRestoreVars

\* lines 224-249: terraform apply restore.tfplan, the cleanup, the status.
\* The provisioning tool may write a new version of the state object.
terraform_apply ==
    /\ pc = "apply"
    /\ \E rc \in ExitCodes, wrote \in BOOLEAN :
         /\ rcs' = [rcs EXCEPT !.apply = rc]
         /\ ops' = Append(ops, "apply")
         /\ applied' = planFile
         /\ UNCHANGED uploaded
         /\ planFile' = unlink(planFile)
         /\ IF wrote /\ writes < MaxWrites
            THEN /\ \E c \in Contents : versions' = PutObject(versions, nextId, c)
                 /\ nextId' = nextId + 1
                 /\ writes' = writes + 1
                 /\ outcome' = NoOutcome
            ELSE UNCHANGED << versions, nextId, writes, outcome >>
         /\ TerraformReturn(IF failed(rc) THEN "apply_failed" ELSE "applied")
    /\ UNCHANGED << HAS_BOTO3, racing, runs, args, current, tmp_path, result, pre,
                    last >>
    /\ UNCHANGED notRestoreVars

\* lines 383-395: main looks at the status
main_after_terraform ==
    /\ pc = "after_terraform"
    /\ pc' = "exit"
    /\ exitCode' = IF tf \notin {"applied", "dry_run"} THEN 1 ELSE 0
    /\ UNCHANGED << HAS_BOTO3, versions, nextId, planFile, racing, writes, runs,
                    args, current, tmp_path, result, tf, raised, rcs, ops, pre,
                    outcome, last, applied, uploaded >>
    /\ UNCHANGED notRestoreVars

(* ------------------------ Part 2: the REST clients ---------------------- *)

\* calls of client methods in one behaviour
MaxCalls == 2
\* sends of one request the model follows (the retry of
\* EntitlementSettingsManager has no bound of its own)
MaxSends == 4
\* pages of one paginated listing
MaxPages == 2
\* the clock at construction, in seconds
Epoch == 100

\* the clock counts half seconds, the shortest sleep of the clients
TicksPerSecond == 2

\* a header the response does not carry
Absent == -1

\* "governance": OktaGovernanceClient (copy_grants_between_orgs.py),
\* "groups": OktaClient (copy_group_memberships.py),
\* "users": OktaClient (export_users_to_csv.py),
\* "assignments": OktaClient (export_app_assignments.py),
\* "entitlement": EntitlementSettingsManager over its OktaAPIManager
Kinds == {"governance", "groups", "users", "assignments", "entitlement"}

EntitlementMethods == {"get_all_apps", "get_entitlement_settings",
                       "enable_entitlement_management",
                       "disable_entitlement_management"}

MethodsOf(k) == IF k = "entitlement" THEN EntitlementMethods ELSE {"_make_request"}

\* self.rate_limit_remaining exists in the three OktaClient copies
tracks_remaining(k) == k \in {"groups", "users", "assignments"}

\* self.rate_limit_reset exists in copy_group_memberships.py only
stores_reset(k) == k = "groups"

INITIAL_REMAINING == 1000
LOW_REMAINING == 10
DEFAULT_RESET_AFTER == 60
max_retries == 3

\* X-Rate-Limit-Reset values a server sends, relative to now, in seconds
ResetOffsets == {-1, 0, 2}

\* X-Rate-Limit-Remaining values a server sends
RemainingValues == {5, 50}

StatusesOf(f) ==
    CASE f = "_make_request" -> {200, 429, 500}
      [] f = "get_all_apps" -> {200, 429, 500}
      [] f = "get_entitlement_settings" -> {200, 400, 404, 429, 500}
      [] f = "enable_entitlement_management" -> {200, 400, 409, 429, 500}
      [] f = "disable_entitlement_management" -> {200, 400, 404, 429, 500}

Now == clock \div TicksPerSecond

\* What the transport may answer.  Headers no code path reads are left out:
\* the reset header of a response that is not a 429 (unless the client
\* stores it), the remaining header for a client that does not track it, the
\* next link outside a successful get_all_apps page.
Answers(k, f) ==
    { r \in [status : StatusesOf(f),
             reset : {Absent} \cup { Now + d : d \in ResetOffsets },
             remaining : {Absent} \cup RemainingValues,
             next : BOOLEAN] :
        /\ (r.status # 429 /\ ~stores_reset(k)) => r.reset = Absent
        /\ ~tracks_remaining(k) => r.remaining = Absent
        /\ r.next => (f = "get_all_apps" /\ r.status = 200 /\ page < MaxPages) }

NoResponse == [status |-> 0, reset |-> Absent, remaining |-> Absent, next |-> FALSE]

NoReturn == [code |-> 0, result |-> "none"]

Max(a, b) == IF a >= b THEN a ELSE b

(* --------------------------- _handle_rate_limit ------------------------- *)

\* the update of self.rate_limit_remaining
new_remaining(k, r) ==
    IF tracks_remaining(k) /\ r.remaining # Absent
    THEN r.remaining ELSE rate_limit_remaining

\* the update of self.rate_limit_reset
new_reset(k, r) ==
    IF stores_reset(k) /\ r.reset # Absent THEN r.reset ELSE rate_limit_reset

\* the reset time the wait is computed from, in seconds:
\* int(response.headers.get('X-Rate-Limit-Reset', time.time() + 60)), or
\* self.rate_limit_reset in copy_group_memberships.py
reset_time(k, r) ==
    IF stores_reset(k) THEN new_reset(k, r)
    ELSE IF r.reset # Absent THEN r.reset
    ELSE (clock + DEFAULT_RESET_AFTER * TicksPerSecond) \div TicksPerSecond

\* the wait without the one-second margin
wait_time_no_margin(reset) ==
    Max(reset * TicksPerSecond - clock, TicksPerSecond)

\* wait_time = max(reset_time - time.time() + 1, 1), in half seconds
wait_time(reset) ==
    Max(reset * TicksPerSecond - clock + TicksPerSecond, TicksPerSecond)

\* the time _handle_rate_limit sleeps, in half seconds: until the reset on
\* a 429, half a second when the tracked remaining quota is low
sleep_time(k, r) ==
    IF r.status = 429 THEN wait_time(reset_time(k, r))
    ELSE IF tracks_remaining(k) /\ new_remaining(k, r) < LOW_REMAINING THEN 1
    ELSE 0

\* the handler's effect on the client and the clock
handle_rate_limit(k, r) ==
    /\ rate_limit_remaining' = new_remaining(k, r)
    /\ rate_limit_reset' = new_reset(k, r)
    /\ clock' = clock + sleep_time(k, r)
    /\ slept' = slept + sleep_time(k, r)

(* ------------------------------- Init ---------------------------------- *)

InitHttp ==
    /\ kind \in Kinds
    /\ clock = Epoch * TicksPerSecond
    /\ rate_limit_remaining = INITIAL_REMAINING
    /\ rate_limit_reset = 0
    /\ calls = 0
    /\ hpc = "idle"
    /\ fn = "none"
    /\ attempt = 0
    /\ response = NoResponse
    /\ returned = NoReturn
    /\ responses = << >>
    /\ slept = 0
    /\ t0 = 0
    /\ page = 1

(* ------------------------------ actions -------------------------------- *)

\* a caller calls a method of the client
Call ==
    /\ hpc = "idle"
    /\ calls < MaxCalls
    /\ calls' = calls + 1
    /\ t0' = clock
    /\ \E f \in MethodsOf(kind), dry_run \in BOOLEAN :
         /\ fn' = f
         /\ IF dry_run /\ f \in {"enable_entitlement_management",
                                 "disable_entitlement_management"}
            THEN hpc' = "done" /\ returned' = [code |-> 0, result |-> "dry_run"]
            ELSE hpc' = "send" /\ UNCHANGED returned
    /\ UNCHANGED << kind, clock, rate_limit_remaining, rate_limit_reset, attempt,
                    response, responses, slept, page >>
    /\ UNCHANGED notHttpVars

\* the caller has the return value; the call's frame is gone
Finish ==
    /\ hpc = "done"
    /\ hpc' = "idle"
    /\ fn' = "none"
    /\ attempt' = 0
    /\ response' = NoResponse
    /\ returned' = NoReturn
    /\ responses' = << >>
    /\ slept' = 0
    /\ t0' = 0
    /\ page' = 1
    /\ UNCHANGED << kind, clock, rate_limit_remaining, rate_limit_reset, calls >>
    /\ UNCHANGED notHttpVars

\* the loop bound checked one attempt too late
give_up_late(n) == n > max_retries

\* for attempt in range(max_retries): the loop is over
give_up(n) == n >= max_retries

\* _make_request: one iteration of the loop, and the return after it
make_request ==
    /\ hpc = "send"
    /\ fn = "_make_request"
    /\ \E r \in Answers(kind, fn) :
         /\ response' = r
         /\ responses' = Append(responses, [status |-> r.status, reset |-> r.reset])
         /\ handle_rate_limit(kind, r)
         /\ IF r.status = 429
            THEN /\ attempt' = attempt + 1
                 /\ IF give_up(attempt')
                    THEN hpc' = "done"
                         /\ returned' = [code |-> r.status, result |-> "response"]
                    ELSE hpc' = "send" /\ UNCHANGED returned
            ELSE /\ hpc' = "done"
                 /\ returned' = [code |-> r.status, result |-> "response"]
                 /\ UNCHANGED attempt
    /\ UNCHANGED << kind, calls, fn, t0, page >>
    /\ UNCHANGED notHttpVars

\* what a method of EntitlementSettingsManager does with an answer that is
\* not a 429: "again" (the next page), "alt" (the alternative PUT), or the
\* result it returns
entitlement_result(f, r) ==
    CASE f = "get_all_apps" ->
             IF r.status >= 400 THEN "HTTPError"
             ELSE IF r.next THEN "again" ELSE "apps"
      [] f = "get_entitlement_settings" ->
             IF r.status = 404 THEN "not_configured"
             ELSE IF r.status = 400 THEN "not_eligible"
             ELSE IF r.status < 400 THEN "enabled" ELSE "error"
      [] f = "enable_entitlement_management" ->
             IF r.status < 400 THEN "success"
             ELSE IF r.status = 409 THEN "already_enabled"
             ELSE IF r.status = 400 THEN "alt" ELSE "error"
      [] f = "disable_entitlement_management" ->
             IF r.status < 400 THEN "success"
             ELSE IF r.status = 404 THEN "not_enabled"
             ELSE IF r.status = 400 THEN "alt" ELSE "error"

\* EntitlementSettingsManager: one request of get_all_apps (lines 110-124),
\* get_entitlement_settings (157-174), enable_entitlement_management
\* (195-244) or disable_entitlement_management (266-306).  A 429 sleeps and
\* sends the same request again: by continue in the loop of get_all_apps, by
\* a recursive call in the other three.
entitlement_request ==
    /\ hpc = "send"
    /\ fn \in EntitlementMethods
    /\ Len(responses) < MaxSends
    /\ \E r \in Answers(kind, fn) :
         /\ response' = r
         /\ handle_rate_limit(kind, r)
         /\ IF r.status = 429
            THEN /\ responses' = Append(responses,
                                        [status |-> r.status, reset |-> r.reset])
                 /\ hpc' = "send"
                 /\ UNCHANGED << returned, page >>
            ELSE LET res == entitlement_result(fn, r)
                 IN  IF res = "again"
                     THEN /\ page' = page + 1
                          /\ responses' = << >>
                          /\ hpc' = "send"
                          /\ UNCHANGED returned
                     ELSE /\ responses' = Append(responses,
                                   [status |-> r.status, reset |-> r.reset])
                          /\ hpc' = IF res = "alt" THEN "alt" ELSE "done"
                          /\ returned' = IF res = "alt" THEN returned
                                         ELSE [code |-> r.status, result |-> res]
                          /\ UNCHANGED page
    /\ UNCHANGED << kind, calls, fn, attempt, t0 >>
    /\ UNCHANGED notHttpVars

\* lines 223-238 and 286-300: the alternative PUT after a 400; its answer is
\* looked at once
entitlement_alt ==
    /\ hpc = "alt"
    /\ \E st \in {200, 429, 500} :
         /\ response' = [NoResponse EXCEPT !.status = st]
         /\ returned' = [code |-> st,
                         result |-> IF st < 400 THEN "success" ELSE "error"]
    /\ hpc' = "done"
    /\ UNCHANGED << kind, clock, rate_limit_remaining, rate_limit_reset, calls,
                    fn, attempt, responses, slept, t0, page >>
    /\ UNCHANGED notHttpVars

(* --------------------- Part 3: the token-based clients ----------------- *)

\* OAGClient (src/scripts/oag/oag_client.py) and OPAImporter
\* (src/scripts/import_opa_resources.py)
TokenClients == {"oag", "opa"}

\* no token cached: self._access_token = None, self.token = None; also the
\* value a token response without the token field leaves in the cache
NoToken == 0

\* seconds before the expiry from which the cached token is no longer used
TOKEN_BUFFER == 60

\* lifetime assumed when the token response declares none (OAG), and always
\* (OPA)
DEFAULT_EXPIRES_IN == 3600

\* expires_in values a token response declares (Absent: the field is missing)
ExpiresIn == {60, Absent}

\* seconds that pass between two steps
Delays == {1, 3540}

ApiStatuses == {200, 401, 500}

\* answers of the token endpoint: fresh is whether the body carries a token
TokenAnswers(c) ==
    [status : {200, 401}, fresh : BOOLEAN,
     expires_in : IF c = "oag" THEN ExpiresIn ELSE {Absent}]

cached_token_valid_no_buffer(c, force, tok, t, exp) ==
    /\ ~(c = "oag" /\ force)
    /\ tok # NoToken
    /\ t < exp

\* oag_client.py line 143, import_opa_resources.py line 52: the cached token
\* is returned without a request
cached_token_valid(c, force, tok, t, exp) ==
    /\ ~(c = "oag" /\ force)
    /\ tok # NoToken
    /\ t < exp - TOKEN_BUFFER

\* oag_client.py lines 178-179, import_opa_resources.py line 68
new_expiry(c, t, expires_in) ==
    IF c = "oag" /\ expires_in # Absent
    THEN t + expires_in
    ELSE t + DEFAULT_EXPIRES_IN

NoGet == [at |-> Absent, force |-> FALSE, before |-> NoToken, expiry |-> 0,
          requested |-> FALSE, ok |-> FALSE, token |-> NoToken, life |-> 0]

\* _get_access_token(force_refresh) / _get_token(): the cache check, the
\* token request and the cache update; ans is what the token endpoint
\* answers if it is asked.  lastGet.ok tells the caller whether the function
\* returned a token or raised (OAGAuthenticationError, sys.exit(1)).
get_access_token(force, ans) ==
    LET valid  == cached_token_valid(client, force, access_token, now,
                                     token_expiry)
        tok    == IF ans.fresh THEN issued + 1 ELSE NoToken
        expiry == new_expiry(client, now, ans.expires_in)
    IN  /\ prevGet' = lastGet
        /\ IF valid
           THEN /\ lastGet' = [at |-> now, force |-> force,
                               before |-> access_token, expiry |-> token_expiry,
                               requested |-> FALSE, ok |-> TRUE,
                               token |-> access_token, life |-> 0]
                /\ UNCHANGED << access_token, token_expiry, issued, sent >>
           ELSE /\ sent' = Append(sent, IF force THEN "token_forced" ELSE "token")
                /\ IF ans.status = 200
                   THEN /\ access_token' = tok
                        /\ token_expiry' = expiry
                        /\ issued' = IF ans.fresh THEN issued + 1 ELSE issued
                        /\ lastGet' = [at |-> now, force |-> force,
                                       before |-> access_token,
                                       expiry |-> token_expiry,
                                       requested |-> TRUE, ok |-> TRUE,
                                       token |-> tok, life |-> expiry - now]
                   ELSE /\ lastGet' = [at |-> now, force |-> force,
                                       before |-> access_token,
                                       expiry |-> token_expiry,
                                       requested |-> TRUE, ok |-> FALSE,
                                       token |-> NoToken, life |-> 0]
                        /\ UNCHANGED << access_token, token_expiry, issued >>

NoTokenReturn == [how |-> "none", status |-> 0]

InitToken ==
    /\ client \in TokenClients
    /\ now = Epoch
    /\ access_token = NoToken
    /\ token_expiry = 0
    /\ issued = 0
    /\ tcalls = 0
    /\ advances = 0
    /\ tpc = "idle"
    /\ tfn = "none"
    /\ retry_on_401 = TRUE
    /\ bearer = NoToken
    /\ sent = << >>
    /\ answers = << >>
    /\ tret = NoTokenReturn
    /\ lastGet = NoGet
    /\ prevGet = NoGet

\* time passes
AdvanceClock ==
    /\ advances < MaxAdvances
    /\ tpc # "exit"
    /\ \E d \in Delays : now' = now + d
    /\ advances' = advances + 1
    /\ UNCHANGED << client, access_token, token_expiry, issued, tcalls, tpc,
                    tfn, retry_on_401, bearer, sent, answers, tret, lastGet,
                    prevGet >>
    /\ UNCHANGED notTokenVars

TokenFrame == UNCHANGED << client, now, advances >>

\* a step that sends no API request
NoApi == UNCHANGED answers

\* oag_client.py lines 290-310: health_check calls _get_access_token() and
\* turns an exception into an 'unhealthy' report
health_check ==
    /\ client = "oag"
    /\ tpc = "idle"
    /\ tcalls < MaxTokenCalls
    /\ tcalls' = tcalls + 1
    /\ tfn' = "health_check"
    /\ \E ans \in TokenAnswers(client) : get_access_token(FALSE, ans)
    /\ tpc' = "done"
    /\ tret' = [how |-> IF lastGet'.ok THEN "healthy" ELSE "unhealthy",
                status |-> 0]
    /\ UNCHANGED << retry_on_401, bearer >>
    /\ NoApi
    /\ TokenFrame
    /\ UNCHANGED notTokenVars

\* oag_client.py lines 206-207: _request is entered, from a caller
\* (retry_on_401 = True) or from itself after a 401 (retry_on_401 = False),
\* and gets its token
oag_request ==
    /\ client = "oag"
    /\ \/ /\ tpc = "idle"
          /\ tcalls < MaxTokenCalls
          /\ tcalls' = tcalls + 1
          /\ retry_on_401' = TRUE
       \/ /\ tpc = "retry"
          /\ retry_on_401' = FALSE
          /\ UNCHANGED tcalls
    /\ tfn' = "_request"
    /\ \E ans \in TokenAnswers(client) : get_access_token(FALSE, ans)
    /\ IF lastGet'.ok
       THEN /\ tpc' = "send"
            /\ bearer' = lastGet'.token
            /\ UNCHANGED tret
       ELSE /\ tpc' = "done"
            /\ tret' = [how |-> "OAGAuthenticationError", status |-> tret.status]
            /\ UNCHANGED bearer
    /\ NoApi
    /\ TokenFrame
    /\ UNCHANGED notTokenVars

retry_401_always(status, retry) == status = 401

\* oag_client.py line 225: a 401 is retried when retry_on_401 is set
retry_401(status, retry) == status = 401 /\ retry

\* oag_client.py lines 215-230: the request is sent; a 401 leads to the
\* forced refresh, every other answer is returned
oag_send ==
    /\ client = "oag"
    /\ tpc = "send"
    /\ \E status \in ApiStatuses :
         /\ sent' = Append(sent, "api")
         /\ answers' = Append(answers, status)
         /\ IF retry_401(status, retry_on_401)
            THEN /\ tpc' = "refresh"
                 /\ tret' = [how |-> "none", status |-> status]
            ELSE /\ tpc' = "done"
                 /\ tret' = [how |-> "response", status |-> status]
    /\ UNCHANGED << access_token, token_expiry, issued, tcalls, tfn,
                    retry_on_401, bearer, lastGet, prevGet >>
    /\ TokenFrame
    /\ UNCHANGED notTokenVars

\* oag_client.py lines 227-228: the forced refresh, then _request calls
\* itself with retry_on_401=False
oag_refresh ==
    /\ client = "oag"
    /\ tpc = "refresh"
    /\ \E ans \in TokenAnswers(client) : get_access_token(TRUE, ans)
    /\ IF lastGet'.ok
       THEN /\ tpc' = "retry"
            /\ UNCHANGED tret
       ELSE /\ tpc' = "done"
            /\ tret' = [how |-> "OAGAuthenticationError", status |-> tret.status]
    /\ UNCHANGED << tcalls, tfn, retry_on_401, bearer >>
    /\ NoApi
    /\ TokenFrame
    /\ UNCHANGED notTokenVars

\* import_opa_resources.py lines 76-78: _make_request gets its token; a
\* failed token request ends the process (sys.exit(1), line 74)
opa_make_request ==
    /\ client = "opa"
    /\ tpc = "idle"
    /\ tcalls < MaxTokenCalls
    /\ tcalls' = tcalls + 1
    /\ tfn' = "_make_request"
    /\ \E ans \in TokenAnswers(client) : get_access_token(FALSE, ans)
    /\ IF lastGet'.ok
       THEN /\ tpc' = "send"
            /\ bearer' = lastGet'.token
            /\ UNCHANGED tret
       ELSE /\ tpc' = "exit"
            /\ tret' = [how |-> "SystemExit", status |-> 1]
            /\ UNCHANGED bearer
    /\ UNCHANGED retry_on_401
    /\ NoApi
    /\ TokenFrame
    /\ UNCHANGED notTokenVars

\* import_opa_resources.py lines 87-96: the request is sent;
\* raise_for_status raises on a status of 400 and above
opa_send ==
    /\ client = "opa"
    /\ tpc = "send"
    /\ \E status \in ApiStatuses :
         /\ sent' = Append(sent, "api")
         /\ answers' = Append(answers, status)
         /\ tpc' = "done"
         /\ tret' = [how |-> IF status >= 400 THEN "HTTPError" ELSE "response",
                     status |-> status]
    /\ UNCHANGED << access_token, token_expiry, issued, tcalls, tfn,
                    retry_on_401, bearer, lastGet, prevGet >>
    /\ TokenFrame
    /\ UNCHANGED notTokenVars

\* the call is over; the client object stays
TokenFinish ==
    /\ tpc = "done"
    /\ tpc' = "idle"
    /\ tfn' = "none"
    /\ sent' = << >>
    /\ answers' = << >>
    /\ tret' = NoTokenReturn
    /\ bearer' = NoToken
    /\ retry_on_401' = TRUE
    /\ UNCHANGED << access_token, token_expiry, issued, tcalls, lastGet,
                    prevGet >>
    /\ TokenFrame
    /\ UNCHANGED notTokenVars

(* ------------------------- Part 4: the importers ----------------------- *)

\* import_grants (src/scripts/copy_grants_between_orgs.py) and
\* import_memberships (src/scripts/copy_group_memberships.py).  The input
\* file is loaded once; its entries are drawn as the loop reaches them.  The
\* target tenant is what the GET lookups at the start of the pass returned.

Importers == {"grants", "memberships"}

\* dict.get without a match, and a call that was not made
None == << >>

\* str.lower() on the names of the model
lower(s) ==
    CASE s = "Alice Smith" -> "alice smith"
      [] s = "ALICE SMITH" -> "alice smith"
      [] s = "Engineering" -> "engineering"
      [] s = "Alice@X"     -> "alice@x"
      [] OTHER             -> s

\* the id the target tenant gives to the object of that name
IdOf(name) == << "id", name >>

\* --- the input of import_grants and the target tenant it looked up
AppNames == {"", "Money Movement"}
BundleNames == {"Admin Bundle", "Retired Bundle"}
PrincipalTypes == {"GROUP", "USER", "APP"}
PrincipalNames == {"Engineering", "engineering", "Alice Smith", "ALICE SMITH",
                   "alice@x", "Nobody"}
Grants == [bundle_name : BundleNames, target_app_name : AppNames,
           principal_name : PrincipalNames, principal_type : PrincipalTypes]

\* lines 389-408: the name -> id mappings built from the lookups
bundle_name_to_id(name) ==
    IF name \in {"Admin Bundle"} THEN IdOf(name) ELSE None
group_name_to_id(name) ==
    IF name \in {"Engineering"} THEN IdOf(name) ELSE None
user_name_to_id(name) ==
    IF name \in {"alice smith"} THEN IdOf("alice") ELSE None
user_login_to_id(name) ==
    IF name \in {"alice@x"} THEN IdOf("alice") ELSE None

\* answers to POST /grants: created, already there, refused
PostStatuses == {201, 409, 500}

\* --- the input of import_memberships and the target tenant it looked up
MembershipGroups == {"Engineering", "Sales", "Legacy"}
Emails == {"alice@x", "Alice@X", "bob@x", "carol@x"}

\* line 245: target_groups, keyed by name
target_groups(name) ==
    IF name \in {"Engineering", "Sales"} THEN IdOf(name) ELSE None
\* lines 149-170 and 242: target_users, keyed by lower-cased email
target_users(email) ==
    IF email \in {"alice@x", "bob@x"} THEN IdOf(email) ELSE None

\* answers to PUT /groups/{id}/users/{id}
PutStatuses == {204, 404, 500}

(* ------------------------------ counters ------------------------------- *)

\* line 413
NoGrantResults ==
    [created |-> 0, exists |-> 0, skipped |-> 0, errors |-> 0, excluded |-> 0]

\* lines 247-254
NoMembershipStats ==
    [groups_found |-> 0, groups_missing |-> 0, users_matched |-> 0,
     users_missing |-> 0, assignments_made |-> 0, assignments_failed |-> 0]

Inc(r, f) == [r EXCEPT ![f] = @ + 1]

NoHttp == [get |-> 0, post |-> 0, put |-> 0]

NoCall == [made |-> FALSE, sent |-> FALSE, args |-> None, status |-> 0]

(* ----------------------------- import_grants --------------------------- *)

create_grant_never_dry(dry) == FALSE

\* line 216: with dry_run create_grant returns before any request
create_grant_dry(dry) == dry

\* lines 200-225: create_grant, answered status by the server if it asks
create_grant(dry, status) ==
    IF create_grant_dry(dry) THEN "dry_run"
    ELSE IF status \in 200..299 THEN "created"
    ELSE IF status = 409 THEN "exists"
    ELSE "error"

bundle_missing_never(id) == FALSE

\* line 430: if not target_bundle_id
bundle_missing(id) == id = None

\* lines 436-444: the principal of a grant in the target tenant
target_principal_id(g) ==
    IF g.principal_type = "GROUP"
    THEN group_name_to_id(g.principal_name)
    ELSE IF g.principal_type = "USER"
    THEN IF user_name_to_id(lower(g.principal_name)) # None
         THEN user_name_to_id(lower(g.principal_name))
         ELSE user_login_to_id(lower(g.principal_name))
    ELSE None

\* lines 422-449: whether the loop body reaches create_grant for this grant,
\* and the counter it bumps if it does not
grant_filter(g, excluded) ==
    IF g.target_app_name \in excluded THEN "excluded"
    ELSE IF bundle_missing(bundle_name_to_id(g.bundle_name)) THEN "skipped"
    ELSE IF target_principal_id(g) = None THEN "skipped"
    ELSE "create"

\* lines 462-474: the counter a create_grant status bumps
grant_counter(status) ==
    CASE status = "created" -> "created"
      [] status = "exists"  -> "exists"
      [] status = "dry_run" -> "created"
      [] OTHER              -> "errors"

\* the counter one pass over grant g bumps
grant_pass(g, excluded, dry, status) ==
    IF grant_filter(g, excluded) = "create"
    THEN grant_counter(create_grant(dry, status))
    ELSE grant_filter(g, excluded)

exit_status_counting_exists(r) == IF r.errors + r.exists = 0 THEN 0 ELSE 1

\* line 489
exit_status(r) == IF r.errors = 0 THEN 0 ELSE 1

(* --------------------------- import_memberships ------------------------ *)

user_of_as_written(email) == target_users(email)

\* lines 274-275: the target user of a member email
user_of(email) == target_users(lower(email))

add_never_skipped(dry) == FALSE

\* line 285: if not dry_run
add_skipped(dry) == dry

\* lines 143-147: add_user_to_group
add_user_to_group(status) == status = 204

\* the counters one member email of a found group bumps
member_pass(stats, email, dry, status) ==
    IF user_of(email) = None
    THEN Inc(stats, "users_missing")
    ELSE IF add_skipped(dry)
    THEN Inc(stats, "users_matched")
    ELSE IF add_user_to_group(status)
    THEN Inc(Inc(stats, "users_matched"), "assignments_made")
    ELSE Inc(Inc(stats, "users_matched"), "assignments_failed")

(* -------------------------------- Init --------------------------------- *)

NoItem == [kind |-> "none"]

InitImport ==
    /\ importer \in Importers
    /\ idry \in BOOLEAN
    /\ ienv \in BOOLEAN
    /\ exclude_apps \in {{}, {"Money Movement"}}
    /\ ipc = "idle"
    /\ total = 0
    /\ idx = 0
    /\ members = 0
    /\ midx = 0
    /\ found = None
    /\ seen = {}
    /\ results = IF importer = "grants" THEN NoGrantResults
                 ELSE NoMembershipStats
    /\ shadow = results
    /\ http = NoHttp
    /\ iret = -1
    /\ item = NoItem
    /\ called = NoCall
    /\ allok = TRUE
    /\ sawError = FALSE
    /\ pairs = [expected |-> 0, absent |-> 0]

ImportFrame == UNCHANGED << importer, idry, ienv, exclude_apps >>

(* ------------------------------- actions ------------------------------- *)

\* copy_grants_between_orgs.py lines 357-413: the credentials are checked
\* (sys.exit(1) without them), the export file is loaded and the four
\* lookups are made.
\* copy_group_memberships.py lines 229-257 and 351-370: the same for main
\* and import_memberships with its two lookups.
ImportStart ==
    /\ ipc = "idle"
    /\ IF ~ienv
       THEN /\ ipc' = "exited"
            /\ iret' = 1
            /\ UNCHANGED << total, http >>
       ELSE /\ ipc' = "loop"
            /\ total' \in 0..(IF importer = "grants" THEN MaxGrants
                              ELSE MaxGroups)
            /\ http' = [http EXCEPT
                          !.get = IF importer = "grants" THEN 4 ELSE 2]
            /\ UNCHANGED iret
    /\ UNCHANGED << idx, members, midx, found, seen, results, shadow, item, called,
                    allok, sawError, pairs >>
    /\ ImportFrame
    /\ UNCHANGED notImportVars

\* copy_grants_between_orgs.py lines 415-474: one iteration of the loop over
\* the grants of the input
import_grant ==
    /\ importer = "grants"
    /\ ipc = "loop"
    /\ idx < total
    /\ \E g \in Grants, status \in PostStatuses :
         LET reach  == grant_filter(g, exclude_apps) = "create"
             posted == reach /\ ~create_grant_dry(idry)
             st     == IF reach THEN create_grant(idry, status) ELSE "none"
         IN  /\ item' = [kind |-> "grant", grant |-> g,
                         counter |-> grant_pass(g, exclude_apps, idry, status)]
             /\ results' = Inc(results, grant_pass(g, exclude_apps, idry, status))
             /\ shadow' = Inc(shadow, grant_pass(g, exclude_apps, TRUE, status))
             /\ called' = IF reach
                          THEN [made |-> TRUE, sent |-> posted,
                                args |-> << bundle_name_to_id(g.bundle_name),
                                            target_principal_id(g),
                                            g.principal_type >>,
                                status |-> IF posted THEN status ELSE 0]
                          ELSE NoCall
             /\ http' = IF posted THEN Inc(http, "post") ELSE http
             /\ allok' = (allok /\ (posted => status \in 200..299))
             /\ sawError' = (sawError \/ st = "error")
    /\ idx' = idx + 1
    /\ UNCHANGED << ipc, total, members, midx, found, seen, iret, pairs >>
    /\ ImportFrame
    /\ UNCHANGED notImportVars

\* copy_grants_between_orgs.py lines 476-489 and 541-550: the summary, the
\* return value and sys.exit(main())
import_grants_return ==
    /\ importer = "grants"
    /\ ipc = "loop"
    /\ idx = total
    /\ ipc' = "exited"
    /\ iret' = exit_status(results)
    /\ UNCHANGED << total, idx, members, midx, found, seen, results, shadow, http, item,
                    called, allok, sawError, pairs >>
    /\ ImportFrame
    /\ UNCHANGED notImportVars

\* copy_group_memberships.py lines 259-272: one iteration of the loop over
\* the groups of the input, up to the loop over its member emails
import_group ==
    /\ importer = "memberships"
    /\ ipc = "loop"
    /\ idx < total
    /\ \E g \in MembershipGroups \ seen, k \in 0..MaxMembers :
         /\ seen' = seen \cup {g}
         /\ found' = target_groups(g)
         /\ item' = [kind |-> "group", group |-> g]
         /\ IF target_groups(g) = None
            THEN /\ results' = Inc(results, "groups_missing")
                 /\ shadow' = Inc(shadow, "groups_missing")
                 /\ idx' = idx + 1
                 /\ members' = 0
                 /\ UNCHANGED ipc
            ELSE /\ results' = Inc(results, "groups_found")
                 /\ shadow' = Inc(shadow, "groups_found")
                 /\ members' = k
                 /\ ipc' = "members"
                 /\ UNCHANGED idx
    /\ midx' = 0
    /\ called' = NoCall
    /\ UNCHANGED << total, http, iret, allok, sawError, pairs >>
    /\ ImportFrame
    /\ UNCHANGED notImportVars

\* copy_group_memberships.py lines 273-290: one iteration of the loop over
\* the member emails of a found group
import_member ==
    /\ importer = "memberships"
    /\ ipc = "members"
    /\ midx < members
    /\ \E email \in Emails, status \in PutStatuses :
         LET put == user_of(email) # None /\ ~add_skipped(idry)
         IN  /\ item' = [kind |-> "member", group |-> item.group,
                         email |-> email]
             /\ results' = member_pass(results, email, idry, status)
             /\ shadow' = member_pass(shadow, email, TRUE, status)
             /\ called' = IF put
                          THEN [made |-> TRUE, sent |-> TRUE,
                                args |-> << found, user_of(email) >>,
                                status |-> status]
                          ELSE NoCall
             /\ http' = IF put THEN Inc(http, "put") ELSE http
             /\ allok' = (allok /\ (put => add_user_to_group(status)))
             /\ sawError' = (sawError \/ (put /\ ~add_user_to_group(status)))
             /\ pairs' = IF target_users(lower(email)) # None
                         THEN Inc(pairs, "expected")
                         ELSE Inc(pairs, "absent")
    /\ midx' = midx + 1
    /\ UNCHANGED << ipc, total, idx, members, found, seen, iret >>
    /\ ImportFrame
    /\ UNCHANGED notImportVars

\* copy_group_memberships.py lines 292-296: the report on a found group once
\* its member emails are done
import_group_done ==
    /\ importer = "memberships"
    /\ ipc = "members"
    /\ midx = members
    /\ ipc' = "loop"
    /\ idx' = idx + 1
    /\ UNCHANGED << total, members, midx, found, seen, results, shadow, http, iret,
                    item, called, allok, sawError, pairs >>
    /\ ImportFrame
    /\ UNCHANGED notImportVars

\* copy_group_memberships.py lines 298-328 and 369-372: the summary,
\* return stats; main drops the stats and returns 0
import_memberships_return ==
    /\ importer = "memberships"
    /\ ipc = "loop"
    /\ idx = total
    /\ ipc' = "exited"
    /\ iret' = 0
    /\ UNCHANGED << total, idx, members, midx, found, seen, results, shadow, http, item,
                    called, allok, sawError, pairs >>
    /\ ImportFrame
    /\ UNCHANGED notImportVars

(* --------------------- Part 5: the backup manifest --------------------- *)

\* src/backup-restore/resource-based/scripts/create_backup_manifest.py

\* lines 126-142: the expected files and their count keys ("" is None),
\* main files then oig/ files
backup_files ==
    << [file |-> "users.csv", key |-> ""],
       [file |-> "groups.json", key |-> "groups"],
       [file |-> "memberships.json", key |-> "memberships"],
       [file |-> "app_assignments.json", key |-> "applications"],
       [file |-> "owner_mappings.json", key |-> ""],
       [file |-> "label_mappings.json", key |-> "labels"],
       [file |-> "risk_rules.json", key |-> "rules"] >>

oig_files ==
    << [file |-> "oig/entitlements.json", key |-> "entitlements"],
       [file |-> "oig/reviews.json", key |-> "reviews"],
       [file |-> "oig/request_sequences.json", key |-> "sequences"],
       [file |-> "oig/catalog_entries.json", key |-> "entries"] >>

\* the two loops of create_manifest, one after the other
expected_files == backup_files \o oig_files

\* line 93: filename.endswith('.csv')
is_csv(file) == file \in {"users.csv"}

\* lines 155 and 170: the name under which a file is entered in 'resources'
resource_name(file) ==
    CASE file = "users.csv"                  -> "users"
      [] file = "groups.json"                -> "groups"
      [] file = "memberships.json"           -> "memberships"
      [] file = "app_assignments.json"       -> "app_assignments"
      [] file = "owner_mappings.json"        -> "owner_mappings"
      [] file = "label_mappings.json"        -> "label_mappings"
      [] file = "risk_rules.json"            -> "risk_rules"
      [] file = "oig/entitlements.json"      -> "entitlements"
      [] file = "oig/reviews.json"           -> "reviews"
      [] file = "oig/request_sequences.json" -> "request_sequences"
      [] file = "oig/catalog_entries.json"   -> "catalog_entries"

\* lines 159 and 174
source_of(file) ==
    IF \E x \in 1..Len(oig_files) : oig_files[x].file = file
    THEN "terraform"
    ELSE "export"

(* ---------------------------- count_json_items ------------------------- *)

JsonList(len) == [kind |-> "list", len |-> len, items |-> << >>]
JsonDict(items) ==
    [kind |-> "dict", len |-> Cardinality(DOMAIN items), items |-> items]
ListOf(len) == [list |-> TRUE, len |-> len]
Scalar == [list |-> FALSE, len |-> 0]
JsonNumber == [kind |-> "number", len |-> 0, items |-> << >>]

\* what json.load returns for each file of the backup directory
json_load(file) ==
    CASE file = "groups.json" ->
           JsonDict("groups" :> ListOf(2))
      [] file = "memberships.json" ->
           JsonDict("source_org" :> Scalar @@ "memberships" :> Scalar)
      [] file = "app_assignments.json" ->
           JsonDict("applications" :> ListOf(3))
      [] file = "owner_mappings.json" ->
           JsonDict("exported" :> Scalar @@ "owners" :> ListOf(1))
      [] file = "label_mappings.json" ->
           JsonDict("assignments" :> ListOf(2))
      [] file = "risk_rules.json" ->
           JsonList(4)
      [] file = "oig/entitlements.json" ->
           JsonDict("entitlements" :> ListOf(2))
      [] file = "oig/reviews.json" ->
           JsonDict("reviews" :> ListOf(0))
      [] file = "oig/request_sequences.json" ->
           JsonDict("sequences" :> ListOf(1))
      [] file = "oig/catalog_entries.json" ->
           JsonDict("entries" :> ListOf(5))
      [] OTHER ->
           JsonList(0)

\* line 70: the keys tried when no count key is given, in order
common_keys ==
    << "users", "groups", "memberships", "applications", "rules", "labels",
       "owners" >>

\* len(data[pos]) if isinstance(data[pos], list) else 1
len_or_one(v) == IF v.list THEN v.len ELSE 1

\* lines 56-74
count_json_items(data, key) ==
    IF key # ""
    THEN IF data.kind = "dict" /\ key \in DOMAIN data.items
         THEN len_or_one(data.items[key])
         ELSE 0
    ELSE IF data.kind = "list"
    THEN data.len
    ELSE IF data.kind # "dict"
    THEN 1
    ELSE LET hits == { x \in 1..Len(common_keys) :
                         common_keys[x] \in DOMAIN data.items }
         IN  IF hits # {}
             THEN len_or_one(data.items[
                      common_keys[CHOOSE x \in hits : \A y \in hits : x <= y]])
             ELSE data.len

(* ----------------------------- count_csv_rows -------------------------- *)

\* first fields of a CSV row
FirstFields == {"", "email", "Email", "# exported", "alice@x"}

\* the rows csv.reader yields: a blank line gives a row without fields
Rows == {<< >>} \cup { << f >> : f \in FirstFields }
               \cup { << f, g >> : f \in FirstFields, g \in {"", "Alice"} }

\* row[0].startswith('#')
startswith_hash(field) == field \in {"# exported"}

counted_if_first_field(row) ==
    /\ row # << >>
    /\ row[1] # ""
    /\ ~startswith_hash(row[1])
    /\ row[1] # "email"

\* line 51: if row and not row[0].startswith('#') and row[0] != 'email'
counted(row) ==
    /\ row # << >>
    /\ ~startswith_hash(row[1])
    /\ row[1] # "email"

NoRows == [rows |-> 0, blank |-> 0, empty_first |-> 0, hash |-> 0,
           header |-> 0]

\* one more row of each kind it belongs to
Classify(c, row) ==
    [rows        |-> c.rows + 1,
     blank       |-> c.blank + (IF row = << >> THEN 1 ELSE 0),
     empty_first |-> c.empty_first
                     + (IF row # << >> /\ row[1] = "" THEN 1 ELSE 0),
     hash        |-> c.hash
                     + (IF row # << >> /\ startswith_hash(row[1]) THEN 1 ELSE 0),
     header      |-> c.header
                     + (IF row # << >> /\ row[1] = "email" THEN 1 ELSE 0)]

(* ------------------------------ create_manifest ------------------------ *)

file_listed_always(exists) == TRUE

\* lines 81-82, 153 and 168: get_file_info returns None for a file that does not
\* exist, and such a file gets no entry
file_listed(exists) == exists

\* lines 84-98: the descriptor of a file (size, mtime and hash are left out)
get_file_info(file, cnt) == [file |-> file, count |-> cnt]

\* lines 153-163 and 168-178: the manifest after one more listed file
add_file(m, info) ==
    [m EXCEPT
       !.files = Append(@, info),
       !.resources = [ r \in DOMAIN @ \cup {resource_name(info.file)} |->
                         IF r = resource_name(info.file)
                         THEN [count |-> info.count, file |-> info.file,
                               source |-> source_of(info.file)]
                         ELSE @[r] ],
       !.total_files = @ + 1,
       !.total_resources = @ + info.count]

\* lines 113-123 and 147-148
NoManifest ==
    [files |-> << >>, resources |-> << >>, total_files |-> 0,
     total_resources |-> 0, terraform_state |-> "none",
     summary |-> [total_files |-> -1, total_resources |-> -1]]

\* --state-bucket/--state-key/--state-version as given on the command line
StateArgs == {"none", "bucket_key", "bucket_key_version"}

\* what a present expected file holds: a document json.load accepts (the one
\* of json_load, or a bare number), text that is no JSON, or bytes that
\* cannot be read
Documents == {"wellformed", "number", "invalid", "unreadable"}

\* line 59: json.load of a present JSON file that can be parsed
load(file, doc) == IF doc = "number" THEN JsonNumber ELSE json_load(file)

\* lines 84-96: the exception get_file_info lets through for a present file
\* ("" if none): os.stat and open raise OSError, json.load raises
\* JSONDecodeError, 'key in data' raises TypeError when data is a number
raised_by(doc, key) ==
    CASE doc = "unreadable"           -> "OSError"
      [] doc = "invalid"              -> "JSONDecodeError"
      [] doc = "number" /\ key # ""   -> "TypeError"
      [] OTHER                        -> ""

NoRaise == [exc |-> "", at |-> ""]

\* lines 151-178 with a handler around get_file_info that skips the file
propagates_never(exc) == FALSE

\* lines 151-178: nothing catches what get_file_info raises; the exception
\* leaves create_manifest and main
propagates(exc) == exc # ""

InitManifest ==
    /\ mpc = "main"
    /\ pos = 1
    /\ manifest = NoManifest
    /\ present = {}
    /\ count = 0
    /\ read = NoRows
    /\ mexit = -1
    /\ mraised = NoRaise
    /\ output_file \in {0, -1}

\* the uncaught exception exc, raised for the file (or "output"), ends the
\* interpreter with status 1 when it propagates
ManifestRaise(exc, at) ==
    /\ mraised' = [exc |-> exc, at |-> at]
    /\ mpc' = IF propagates(exc) THEN "exit" ELSE mpc
    /\ mexit' = IF propagates(exc) THEN 1 ELSE mexit

\* lines 229-231: main checks the backup directory
manifest_main ==
    /\ mpc = "main"
    /\ \E isdir \in BOOLEAN :
         IF isdir
         THEN mpc' = "files" /\ UNCHANGED mexit
         ELSE mpc' = "exit" /\ mexit' = 1
    /\ UNCHANGED << pos, manifest, present, count, read, mraised, output_file >>
    /\ UNCHANGED notManifestVars

\* lines 151-178 with get_file_info: one iteration over an expected file
\* that is absent or a JSON file
manifest_file ==
    /\ mpc = "files"
    /\ pos <= Len(expected_files)
    /\ \E ex \in BOOLEAN, doc \in Documents :
         LET f == expected_files[pos]
             exc == raised_by(doc, f.key)
         IN  /\ ~(ex /\ is_csv(f.file))
             /\ ~ex => doc = "wellformed"
             /\ present' = IF ex THEN present \cup {f.file} ELSE present
             /\ IF exc # ""
                THEN /\ ManifestRaise(exc, f.file)
                     /\ pos' = IF propagates(exc) THEN pos ELSE pos + 1
                     /\ UNCHANGED manifest
                ELSE /\ manifest' =
                          IF file_listed(ex)
                          THEN add_file(manifest,
                                   get_file_info(f.file,
                                       count_json_items(load(f.file, doc),
                                                        f.key)))
                          ELSE manifest
                     /\ pos' = pos + 1
                     /\ UNCHANGED << mpc, mexit, mraised >>
    /\ UNCHANGED << count, read, output_file >>
    /\ UNCHANGED notManifestVars

\* lines 84-89 and 44-48: get_file_info finds a CSV file, reads its size and
\* hash, and count_csv_rows opens it
csv_open ==
    /\ mpc = "files"
    /\ pos <= Len(expected_files)
    /\ is_csv(expected_files[pos].file)
    /\ present' = present \cup {expected_files[pos].file}
    /\ \E doc \in {"wellformed", "unreadable"} :
         IF raised_by(doc, "") # ""
         THEN /\ ManifestRaise(raised_by(doc, ""), expected_files[pos].file)
              /\ pos' = IF propagates(raised_by(doc, "")) THEN pos ELSE pos + 1
              /\ UNCHANGED << count, read >>
         ELSE /\ mpc' = "csv"
              /\ count' = 0
              /\ read' = NoRows
              /\ UNCHANGED << pos, mexit, mraised >>
    /\ UNCHANGED << manifest, output_file >>
    /\ UNCHANGED notManifestVars

\* lines 49-52: one row of the reader
csv_row ==
    /\ mpc = "csv"
    /\ read.rows < MaxRows
    /\ \E row \in Rows :
         /\ count' = IF counted(row) THEN count + 1 ELSE count
         /\ read' = Classify(read, row)
    /\ UNCHANGED << mpc, pos, manifest, present, mexit, mraised, output_file >>
    /\ UNCHANGED notManifestVars

\* line 53: the reader is exhausted and count_csv_rows returns
csv_return ==
    /\ mpc = "csv"
    /\ mpc' = "counted"
    /\ UNCHANGED << pos, manifest, present, count, read, mexit, mraised,
                    output_file >>
    /\ UNCHANGED notManifestVars

\* lines 94 and 153-163: the count goes into the descriptor of the CSV file
manifest_csv_file ==
    /\ mpc = "counted"
    /\ manifest' = add_file(manifest,
                            get_file_info(expected_files[pos].file, count))
    /\ pos' = pos + 1
    /\ mpc' = "files"
    /\ count' = 0
    /\ read' = NoRows
    /\ UNCHANGED << present, mexit, mraised, output_file >>
    /\ UNCHANGED notManifestVars

\* lines 181-204 and 233-243: the state reference, the summary, the manifest
\* is written and main returns 0; open(output_file, 'w') may fail and then
\* leaves the file as it was
manifest_write ==
    /\ mpc = "files"
    /\ pos > Len(expected_files)
    /\ \E st \in StateArgs :
         manifest' = [manifest EXCEPT
                        !.terraform_state = st,
                        !.summary = [total_files |-> manifest.total_files,
                                     total_resources |->
                                         manifest.total_resources]]
    /\ \E ok \in BOOLEAN :
         IF ok
         THEN /\ output_file' = 1
              /\ mpc' = "exit"
              /\ mexit' = 0
              /\ UNCHANGED mraised
         ELSE /\ mraised' = [exc |-> "OSError", at |-> "output"]
              /\ mpc' = "exit"
              /\ mexit' = 1
              /\ UNCHANGED output_file
    /\ UNCHANGED << pos, present, count, read >>
    /\ UNCHANGED notManifestVars

(* ---------------- Part 6: backup_state.py and its manifest -------------- *)

\* src/backup-restore/state-based/scripts/backup_state.py writes MANIFEST.json;
\* restore_state.py --manifest reads it.  The state object is the versioned
\* object of Part 1; other writers may write it while the backup runs.

\* --aws-region (default us-east-1)
Regions == {"us-east-1", "eu-west-1"}

\* --state-bucket and --state-key
STATE_BUCKET == "tfstate"
STATE_KEY == "Okta/prod/terraform.tfstate"

\* calculate_file_hash, lines 98-104: SHA256 of the bytes of a file
sha256(content) == << "sha256", content >>

NoFile == << >>

NoBargs == [source |-> "none", download_state |-> FALSE, region |-> "us-east-1"]

NoSeen == [head |-> << >>, download |-> << >>]

NoResolved == [bucket |-> "", key |-> "", region |-> "", version_id |-> NoSuchVersion]

\* dict.get(key, default)
Get(dict, key, default) == IF key \in DOMAIN dict THEN dict[key] ELSE default

\* backup_state.get_s3_state_version, lines 60-72, and line 225: the
\* metadata of the latest version (etag, last_modified and content_length
\* are left out)
version_info(vs, region) ==
    [bucket |-> STATE_BUCKET, key |-> STATE_KEY, region |-> region,
     version_id |-> LatestId(vs), source |-> "s3"]

\* lines 88-93 without ExtraArgs: the latest version is downloaded
download_s3_state_latest(vs, version_id) == LatestContent(vs)

\* lines 88-93: download_file(..., ExtraArgs={"VersionId": version_id} if
\* version_id else None)
download_s3_state(vs, version_id) ==
    IF version_id # NoSuchVersion
    THEN ContentOf(vs, version_id)
    ELSE LatestContent(vs)

\* lines 116-124: what copy_local_state returns (size and mtime left out)
copy_local_state(content) ==
    [source |-> "local", original_path |-> "terraform.tfstate",
     backup_path |-> "out/terraform.tfstate", sha256 |-> sha256(content)]

\* lines 138-153: the manifest (ids, dates and instructions left out)
create_state_manifest(info) ==
    [version |-> "2.0", backup_type |-> "state-based",
     environment |-> "prod", terraform_state |-> info]

\* json.dump, line 158: strings become JSON strings, a dict a JSON object
to_json(dict) ==
    [ k \in DOMAIN dict |->
        IF k = "terraform_state"
        THEN [json |-> "object",
              members |-> [ j \in DOMAIN dict[k] |->
                              [json |-> "string", text |-> dict[k][j]] ]]
        ELSE [json |-> "string", text |-> dict[k]] ]

\* json.load, restore_state.py line 62
from_json(doc) ==
    [ k \in DOMAIN doc |->
        IF doc[k].json = "object"
        THEN [ j \in DOMAIN doc[k].members |-> doc[k].members[j].text ]
        ELSE doc[k].text ]

\* restore_state.load_manifest, lines 58-69: the exception it raises ("" if
\* the manifest is accepted)
load_manifest(file) ==
    IF file = NoFile
    THEN "FileNotFoundError"
    ELSE IF Get(from_json(file), "backup_type", "") # "state-based"
    THEN "ValueError"
    ELSE IF "terraform_state" \notin DOMAIN from_json(file)
    THEN "ValueError"
    ELSE ""

\* lines 315-318 with the region taken from the command line instead
resolve_region_from_args(info) ==
    [bucket |-> Get(info, "bucket", ""), key |-> Get(info, "key", ""),
     region |-> "us-east-1",
     version_id |-> Get(info, "version_id", NoSuchVersion)]

\* restore_state.main, lines 315-318: the location taken from the manifest
resolve(info) ==
    [bucket |-> Get(info, "bucket", ""), key |-> Get(info, "key", ""),
     region |-> Get(info, "region", "us-east-1"),
     version_id |-> Get(info, "version_id", NoSuchVersion)]

InitBackup ==
    /\ bpc = "idle"
    /\ bargs = NoBargs
    /\ state_info = << >>
    /\ state_file = NoTmp
    /\ MANIFEST = NoFile
    /\ bexit = -1
    /\ resolved = NoResolved
    /\ bops = << >>
    /\ bseen = NoSeen

\* sys.exit(status), or an uncaught exception (status 1)
BackupExit(status) ==
    /\ bpc' = "exit"
    /\ bexit' = status

\* lines 198-217 and 252-254: the command line is parsed and main takes the
\* S3 or the local branch; parser.error ends the process with status 2
backup_main ==
    /\ bpc = "idle"
    /\ \E src \in {"s3", "local", "usage"}, dl \in BOOLEAN, region \in Regions :
         /\ bargs' = [source |-> src, download_state |-> dl, region |-> region]
         /\ IF src = "usage"
            THEN BackupExit(2)
            ELSE /\ bpc' = IF src = "s3" THEN "head" ELSE "local"
                 /\ UNCHANGED bexit
    /\ UNCHANGED << state_info, state_file, MANIFEST, resolved, bops, bseen >>
    /\ UNCHANGED notBackupVars

\* lines 51-77 and 219-229: the metadata-only read of the current version;
\* every exception ends the process with status 1 (lines 245-250)
backup_head ==
    /\ bpc = "head"
    /\ \E ok \in BOOLEAN :
         IF HAS_BOTO3 /\ ok
         THEN /\ state_info' = version_info(versions, bargs.region)
              /\ bops' = Append(bops, "head")
              /\ bseen' = [bseen EXCEPT !.head = versions]
              /\ bpc' = IF bargs.download_state THEN "download" ELSE "manifest"
              /\ UNCHANGED bexit
         ELSE /\ BackupExit(1)
              /\ bops' = IF HAS_BOTO3 THEN Append(bops, "head") ELSE bops
              /\ UNCHANGED << state_info, bseen >>
    /\ UNCHANGED << bargs, state_file, MANIFEST, resolved >>
    /\ UNCHANGED notBackupVars

\* lines 232-243 with download_s3_state: the content at the captured version
\* is downloaded and hashed
backup_download ==
    /\ bpc = "download"
    /\ bops' = Append(bops, "download")
    /\ \E ok \in BOOLEAN :
         IF ok
         THEN /\ state_file' =
                   [exists |-> TRUE,
                    content |-> download_s3_state(versions,
                                                  state_info.version_id)]
              /\ state_info' =
                   state_info @@
                   [backup_path |-> "out/terraform.tfstate",
                    backup_sha256 |-> sha256(state_file'.content)]
              /\ bseen' = [bseen EXCEPT !.download = versions]
              /\ bpc' = "manifest"
              /\ UNCHANGED bexit
         ELSE /\ BackupExit(1)
              /\ UNCHANGED << state_info, state_file, bseen >>
    /\ UNCHANGED << bargs, MANIFEST, resolved >>
    /\ UNCHANGED notBackupVars

\* lines 107-124 and 255-261: the local state file is copied and hashed
backup_local ==
    /\ bpc = "local"
    /\ \E there \in BOOLEAN, content \in Contents :
         IF there
         THEN /\ state_file' = [exists |-> TRUE, content |-> content]
              /\ state_info' = copy_local_state(content)
              /\ bpc' = "manifest"
              /\ UNCHANGED bexit
         ELSE /\ BackupExit(1)
              /\ UNCHANGED << state_info, state_file >>
    /\ UNCHANGED << bargs, MANIFEST, resolved, bops, bseen >>
    /\ UNCHANGED notBackupVars

\* lines 127-161 and 263-282: the manifest is written and main returns 0
backup_manifest ==
    /\ bpc = "manifest"
    /\ \E ok \in BOOLEAN :
         IF ok
         THEN /\ MANIFEST' = to_json(create_state_manifest(state_info))
              /\ BackupExit(0)
         ELSE /\ BackupExit(1)
              /\ UNCHANGED MANIFEST
    /\ UNCHANGED << bargs, state_info, state_file, resolved, bops, bseen >>
    /\ UNCHANGED notBackupVars

\* restore_state.main with --manifest, lines 293-331: the manifest of the
\* finished backup is loaded and the location is resolved from it
StartFromManifest ==
    /\ pc = "idle"
    /\ bpc = "exit"
    /\ runs < MaxRuns
    /\ runs' = runs + 1
    /\ pre' = versions
    /\ planFile' = IF planFile # 0 THEN -1 ELSE 0
    /\ \E mode \in Modes, dry \in BOOLEAN :
         IF load_manifest(MANIFEST) # ""
         THEN /\ pc' = "exit"
              /\ exitCode' = 1
              /\ raised' = load_manifest(MANIFEST)
              /\ args' = [mode |-> mode, dry_run |-> dry,
                          version_id |-> NoSuchVersion]
              /\ UNCHANGED resolved
         ELSE LET info == from_json(MANIFEST).terraform_state
              IN  IF Get(info, "source", "") = "s3"
                  THEN /\ resolved' = resolve(info)
                       /\ args' = [mode |-> mode, dry_run |-> dry,
                                   version_id |-> resolved'.version_id]
                       /\ pc' = first_step(mode)
                       /\ UNCHANGED << raised, exitCode >>
                  ELSE /\ pc' = "exit"
                       /\ exitCode' = 1
                       /\ args' = [mode |-> mode, dry_run |-> dry,
                                   version_id |-> NoSuchVersion]
                       /\ UNCHANGED << raised, resolved >>
    /\ UNCHANGED << HAS_BOTO3, versions, nextId, racing, writes, current,
                    tmp_path, result, tf, rcs, ops, outcome, last, applied, uploaded >>
    /\ UNCHANGED << bpc, bargs, state_info, state_file, MANIFEST, bexit, bops,
                    bseen >>
    /\ UNCHANGED notStateVars

(* ----------------------- Part 7: paginated fetches ---------------------- *)

\* the paginated fetches: export_users_to_csv.py get_all_users (lines
\* 74-103), copy_group_memberships.py get_groups (lines 83-102),
\* copy_grants_between_orgs.py get_entitlement_bundles (lines 74-98) and
\* get_all_grants (lines 100-126), manage_entitlement_settings.py get_all_apps
\* (lines 104-124)
Fetchers == {"get_all_users", "get_groups", "get_entitlement_bundles",
             "get_all_grants", "get_all_apps"}

\* what the server answers to the request for one page: _make_request hands
\* a 429 on to its caller after its retries
PageStatuses == {200, 404, 429, 500}

\* the records of page p of the collection
records_of(p) == << p >>

\* the records of pages 1..p, in page order
RECURSIVE pages_upto(_)
pages_upto(p) == IF p = 0 THEN << >> ELSE pages_upto(p - 1) \o records_of(p)

\* requests.Response.ok with every answer taken for a success
response_ok_always(status) == TRUE

\* requests.Response.ok: no 4xx or 5xx status
response_ok(status) == status < 400

\* manage_entitlement_settings.py lines 112-114: get_all_apps asks again for
\* the same page after a 429
retried(f, status) == f = "get_all_apps" /\ status = 429

\* how a fetch ends on a page that is not ok: get_all_apps raises
\* (raise_for_status, line 115), get_all_grants returns the empty list on a
\* 404 (copy_grants_between_orgs.py lines 110-112), every other fetch breaks
\* out of the loop and returns what it has
on_error(f, status, sofar) ==
    IF f = "get_all_apps"
    THEN [how |-> "raise", value |-> << >>, status |-> status]
    ELSE IF f = "get_all_grants" /\ status = 404
    THEN [how |-> "return", value |-> << >>, status |-> status]
    ELSE [how |-> "return", value |-> sofar, status |-> status]

\* url = None, then response.links["next"]["url"] if "next" in
\* response.links (0 is None)
next_url(p, pages) == IF p < pages THEN p + 1 ELSE 0

NoFetch == [how |-> "none", value |-> << >>, status |-> 0]

InitFetch ==
    /\ fpc = "idle"
    /\ fetcher = "get_all_users"
    /\ chain = 1
    /\ url = 0
    /\ fetched = << >>
    /\ fret = NoFetch
    /\ requested = << >>

\* a fetch is called on a collection of 'chain' pages
fetch_start ==
    /\ fpc = "idle"
    /\ \E f \in Fetchers, c \in 1..MaxChain :
         /\ fetcher' = f
         /\ chain' = c
    /\ url' = 1
    /\ fpc' = "loop"
    /\ UNCHANGED << fetched, fret, requested >>
    /\ UNCHANGED notPageVars

\* one iteration of 'while url', and the return when it ends the loop
fetch_page ==
    /\ fpc = "loop"
    /\ Len(requested) < MaxFetches
    /\ \E status \in PageStatuses :
         /\ requested' = Append(requested, [page |-> url, status |-> status])
         /\ IF retried(fetcher, status)
            THEN UNCHANGED << fpc, url, fetched, fret >>
            ELSE IF ~response_ok(status)
            THEN /\ fret' = on_error(fetcher, status, fetched)
                 /\ fpc' = "done"
                 /\ UNCHANGED << url, fetched >>
            ELSE /\ fetched' = fetched \o records_of(url)
                 /\ url' = next_url(url, chain)
                 /\ IF url' = 0
                    THEN /\ fret' = [how |-> "return", value |-> fetched',
                                     status |-> status]
                         /\ fpc' = "done"
                    ELSE UNCHANGED << fpc, fret >>
    /\ UNCHANGED << fetcher, chain >>
    /\ UNCHANGED notPageVars

(* ------- Part 8: export_users_to_csv.py and the credential checks ------- *)

\* src/scripts/export_users_to_csv.py lines 292-295: the header row
header_row == [kind |-> "header", text |-> "email,first_name,..."]

\* lines 302-304: the three comment lines
comment_lines ==
    << [kind |-> "comment", text |-> "# Exported from Okta org"],
       [kind |-> "comment", text |-> "# Export date"],
       [kind |-> "comment", text |-> "# Total users"] >>

\* line 307: the row of the u-th user
data_row(u) == [kind |-> "data", text |-> u]

\* lines 302-304 with the comment lines put at the top of the file
write_comments_first(file) == comment_lines \o file

\* lines 302-304: f.write appends the comment lines to what the file holds
write_comments(file) == file \o comment_lines

\* line 350: if not org_name or not api_token
credentials_missing(env) == ~env.org_name \/ ~env.api_token

\* import_opa_resources.py lines 501-509 with the secret not looked at
opa_credentials_missing_no_secret(env) == ~env.team \/ ~env.key

\* import_opa_resources.py lines 501-509
opa_credentials_missing(env) == ~env.team \/ ~env.key \/ ~env.secret

InitExport ==
    /\ xenv \in [org_name : BOOLEAN, api_token : BOOLEAN]
    /\ xpc = "main"
    /\ users = 0
    /\ xsent = 0
    /\ csv_file = NoFile
    /\ csv_is_open = FALSE
    /\ xexit = -1

InitOpa ==
    /\ oenv \in [team : BOOLEAN, key : BOOLEAN, secret : BOOLEAN]
    /\ odry \in BOOLEAN
    /\ opc = "main"
    /\ osent = 0
    /\ ofiles = FALSE
    /\ oexit = -1

\* export_users_to_csv.py lines 343-356: the credentials are read from the
\* environment; sys.exit(1) without them
export_main ==
    /\ xpc = "main"
    /\ IF credentials_missing(xenv)
       THEN xpc' = "exit" /\ xexit' = 1
       ELSE xpc' = "fetch" /\ UNCHANGED xexit
    /\ UNCHANGED << xenv, users, xsent, csv_file, csv_is_open >>
    /\ UNCHANGED notExportVars

\* lines 227-286 and 368-374: the users are fetched (one request at least)
\* and their rows are built; without users nothing is written and main
\* returns 1
export_fetch ==
    /\ xpc = "fetch"
    /\ \E n \in 0..MaxUsers :
         /\ users' = n
         /\ xsent' = 1 + n
         /\ IF n = 0
            THEN xpc' = "exit" /\ xexit' = 1
            ELSE xpc' = "open" /\ UNCHANGED xexit
    /\ UNCHANGED << xenv, csv_file, csv_is_open >>
    /\ UNCHANGED notExportVars

\* lines 289-299: the output file is opened for writing, which empties it,
\* and writeheader writes the header row
export_header ==
    /\ xpc = "open"
    /\ csv_file' = << header_row >>
    /\ csv_is_open' = TRUE
    /\ xpc' = "comments"
    /\ UNCHANGED << xenv, users, xsent, xexit >>
    /\ UNCHANGED notExportVars

\* lines 301-304: the comment lines
export_comments ==
    /\ xpc = "comments"
    /\ csv_file' = write_comments(csv_file)
    /\ xpc' = "rows"
    /\ UNCHANGED << xenv, users, xsent, csv_is_open, xexit >>
    /\ UNCHANGED notExportVars

\* lines 306-307: one row of user_data
export_row ==
    /\ xpc = "rows"
    /\ Len(csv_file) < 1 + Len(comment_lines) + users
    /\ csv_file' = Append(csv_file,
                          data_row(Len(csv_file) - Len(comment_lines)))
    /\ UNCHANGED << xenv, xpc, users, xsent, csv_is_open, xexit >>
    /\ UNCHANGED notExportVars

\* lines 307-323 and 368-374: the file is closed and main returns 0
export_return ==
    /\ xpc = "rows"
    /\ Len(csv_file) = 1 + Len(comment_lines) + users
    /\ csv_is_open' = FALSE
    /\ xpc' = "exit"
    /\ xexit' = 0
    /\ UNCHANGED << xenv, users, xsent, csv_file >>
    /\ UNCHANGED notExportVars

\* import_opa_resources.py lines 498-517: team, key and secret come from the
\* command line or the environment; sys.exit(1) without one of them
opa_main ==
    /\ opc = "main"
    /\ IF opa_credentials_missing(oenv)
       THEN opc' = "exit" /\ oexit' = 1
       ELSE opc' = "import" /\ UNCHANGED oexit
    /\ UNCHANGED << oenv, odry, osent, ofiles >>
    /\ UNCHANGED notOpaVars

\* lines 305-465: import_all asks for a token and lists the resources; it
\* writes its files unless this is a dry run; a failed request raises
opa_import_all ==
    /\ opc = "import"
    /\ \E failed_request \in BOOLEAN :
         /\ osent' = 1
         /\ ofiles' = (~odry /\ ~failed_request)
         /\ oexit' = IF failed_request THEN 1 ELSE 0
    /\ opc' = "exit"
    /\ UNCHANGED << oenv, odry >>
    /\ UNCHANGED notOpaVars

(* ------------- Part 9: the Access Gateway application manager ----------- *)

\* src/scripts/oag/oag_applications.py.  The gateway maps the label of each
\* application it holds to the attributes of that application, by name.

Labels == {"hr-portal", "wiki"}

\* dict.get(key) of a key the dict lacks
Missing == "None"

\* the attribute entries a configuration may list: 'source' and 'type' are
\* optional
DesiredAttributes ==
    { [name |-> "X-User", field |-> "login"],
      [name |-> "X-User", field |-> "login", source |-> "IDP",
       type |-> "Header"],
      [name |-> "X-Mail", field |-> "email", type |-> "Cookie"],
      [name |-> "X-Mail", field |-> "email", source |-> "Static",
       type |-> "Header"] }

\* the lists of at most MaxDesired entries
DesiredLists ==
    UNION { [1..len -> DesiredAttributes] : len \in 0..MaxDesired }

\* an attribute the gateway holds that no configuration lists
OldAttribute ==
    [name |-> "X-Old", field |-> "id", dataSource |-> "IDP",
     targetType |-> "Header"]

NoAttributes == [added |-> << >>, updated |-> << >>, deleted |-> {}]

NoRequests == [get |-> 0, post |-> 0, put |-> 0, delete |-> 0, create |-> 0]

\* lines 533-538: the API key a configuration key is compared with
api_key(k) ==
    CASE k = "source" -> "dataSource"
      [] k = "type"   -> "targetType"
      [] OTHER        -> k

\* _attribute_needs_update, lines 540-544: desired.get(k) != current.get(k')
\* for one of the four keys
attribute_needs_update(cur, desired) ==
    \E k \in {"source", "field", "type", "name"} :
        Get(desired, k, Missing) # Get(cur, api_key(k), Missing)

\* add_attribute, lines 188-193: the payload of the POST, which the gateway
\* stores
add_attribute(desired) ==
    [dataSource |-> Get(desired, "source", "IDP"),
     field      |-> desired.field,
     targetType |-> Get(desired, "type", "Header"),
     name       |-> desired.name]

\* update_attribute, lines 218-229: the payload of the PUT holds the keys the
\* entry has
update_payload(desired) ==
    [ k \in { api_key(j) : j \in DOMAIN desired } |->
        desired[CHOOSE j \in DOMAIN desired : api_key(j) = k] ]

\* what the gateway holds after the PUT: the payload replaces the attribute
\* or is merged into it
after_put(cur, payload, replaces) ==
    IF replaces THEN payload ELSE payload @@ cur

\* sync_attributes, lines 273-284: the entries at..Len(desired) are walked
\* against the snapshot taken at line 263
RECURSIVE sync_desired(_, _, _, _, _)
sync_desired(snapshot, desired, at, acc, replaces) ==
    IF at > Len(desired)
    THEN acc
    ELSE LET d == desired[at]
             nxt ==
               IF d.name \in DOMAIN snapshot
               THEN IF attribute_needs_update(snapshot[d.name], d)
                    THEN [acc EXCEPT
                            !.attrs = [@ EXCEPT ![d.name] =
                                         after_put(@, update_payload(d),
                                                   replaces)],
                            !.updated = Append(@, d.name),
                            !.requests.put = @ + 1]
                    ELSE acc
               ELSE [acc EXCEPT
                       !.attrs = (d.name :> add_attribute(d)) @@ @,
                       !.added = Append(@, d.name),
                       !.requests.post = @ + 1]
         IN  sync_desired(snapshot, desired, at + 1, nxt, replaces)

\* sync_attributes, lines 262-296, when every request succeeds: the
\* attributes the gateway holds afterwards, the summary and the requests
sync_attributes(attrs, desired, replaces) ==
    LET walked == sync_desired(attrs, desired, 1,
                               [attrs |-> attrs, added |-> << >>,
                                updated |-> << >>,
                                requests |-> [NoRequests EXCEPT !.get = 1]],
                               replaces)
        desired_names == { desired[x].name : x \in 1..Len(desired) }
        gone == DOMAIN attrs \ desired_names
    IN  [attrs |-> [ a \in DOMAIN walked.attrs \ gone |-> walked.attrs[a] ],
         summary |-> [added |-> walked.added, updated |-> walked.updated,
                      deleted |-> gone],
         requests |-> [walked.requests EXCEPT !.delete = Cardinality(gone)]]

\* deploy_application with dry_run not looked at
deploy_applies_always(dry) == TRUE

\* lines 400 and 413: if not dry_run
deploy_applies(dry) == ~dry

\* lines 419-422: the attributes of a new application, entries
\* at..Len(desired)
RECURSIVE add_all(_, _, _)
add_all(desired, at, acc) ==
    IF at > Len(desired)
    THEN acc
    ELSE add_all(desired, at + 1,
                 [attrs |-> (desired[at].name :> add_attribute(desired[at]))
                            @@ acc.attrs,
                  added |-> Append(acc.added, desired[at].name)])

\* lines 394-398 and 410-411: 'update' when an application with the label
\* exists, 'create' otherwise
deploy_action(gw, label) == IF label \in DOMAIN gw THEN "update" ELSE "create"

\* deploy_application, lines 385-431, when every request succeeds: the
\* gateway afterwards, the result and the requests
deploy_application(gw, cfg, dry, replaces) ==
    LET listed == [NoRequests EXCEPT !.get = 1]
        act == deploy_action(gw, cfg.label)
    IN  IF ~deploy_applies(dry)
        THEN [gateway |-> gw, action |-> act, attributes |-> NoAttributes,
              requests |-> listed]
        ELSE IF act = "update"
        THEN IF cfg.attributes # << >>
             THEN LET s == sync_attributes(gw[cfg.label], cfg.attributes,
                                           replaces)
                  IN  [gateway |-> [gw EXCEPT ![cfg.label] = s.attrs],
                       action |-> act,
                       attributes |-> s.summary,
                       requests |->
                         [s.requests EXCEPT !.get = @ + 1, !.put = @ + 1]]
             ELSE [gateway |-> gw, action |-> act,
                   attributes |-> NoAttributes,
                   requests |-> [listed EXCEPT !.put = 1]]
        ELSE LET a == add_all(cfg.attributes, 1,
                              [attrs |-> << >>, added |-> << >>])
             IN  [gateway |-> (cfg.label :> a.attrs) @@ gw,
                  action |-> act,
                  attributes |-> [NoAttributes EXCEPT !.added = a.added],
                  requests |->
                    [listed EXCEPT
                       !.create = 1,
                       !.post = 1 + Len(cfg.attributes)
                                  + (IF cfg.policy THEN 1 ELSE 0)]]

NoManagerCall ==
    [fn |-> "none", dry_run |-> FALSE, how |-> "none", action |-> "none",
     attributes |-> NoAttributes, requests |-> NoRequests, before |-> << >>]

InitOag ==
    /\ gateway \in { << >>,
                     "hr-portal" :> << >>,
                     "hr-portal" :> ("X-Old" :> OldAttribute),
                     ("hr-portal" :> ("X-Old" :> OldAttribute))
                        @@ ("wiki" :> << >>) }
    /\ put_replaces \in BOOLEAN
    /\ config \in [label : Labels, attributes : DesiredLists,
                   policy : BOOLEAN]
    /\ mcalls = 0
    /\ mcall = NoManagerCall
    /\ mprev = NoManagerCall

\* manage_oag_apps.action_deploy, lines 117-145, for one application of the
\* configuration: deploy_application returns, or the request for the
\* application list raises
oag_deploy ==
    /\ mcalls < MaxManagerCalls
    /\ mcalls' = mcalls + 1
    /\ mprev' = mcall
    /\ \E dry \in BOOLEAN, answered \in BOOLEAN :
         IF answered
         THEN LET d == deploy_application(gateway, config, dry, put_replaces)
              IN  /\ gateway' = d.gateway
                  /\ mcall' = [fn |-> "deploy_application", dry_run |-> dry,
                               how |-> "return", action |-> d.action,
                               attributes |-> d.attributes,
                               requests |-> d.requests, before |-> gateway]
         ELSE /\ mcall' = [NoManagerCall EXCEPT
                             !.fn = "deploy_application", !.dry_run = dry,
                             !.how = "raise", !.action = "error",
                             !.requests.get = 1, !.before = gateway]
              /\ UNCHANGED gateway
    /\ UNCHANGED << put_replaces, config >>
    /\ UNCHANGED notOagVars

\* sync_attributes(app_id, desired_attributes) called for the application of
\* the configuration: it returns, or list_attributes raises (the application
\* does not exist, or the request fails)
oag_sync ==
    /\ mcalls < MaxManagerCalls
    /\ mcalls' = mcalls + 1
    /\ mprev' = mcall
    /\ \E answered \in BOOLEAN :
         IF answered /\ config.label \in DOMAIN gateway
         THEN LET s == sync_attributes(gateway[config.label],
                                       config.attributes, put_replaces)
              IN  /\ gateway' = [gateway EXCEPT ![config.label] = s.attrs]
                  /\ mcall' = [fn |-> "sync_attributes", dry_run |-> FALSE,
                               how |-> "return", action |-> "none",
                               attributes |-> s.summary,
                               requests |-> s.requests, before |-> gateway]
         ELSE /\ mcall' = [NoManagerCall EXCEPT
                             !.fn = "sync_attributes", !.how = "raise",
                             !.requests.get = 1, !.before = gateway]
              /\ UNCHANGED gateway
    /\ UNCHANGED << put_replaces, config >>
    /\ UNCHANGED notOagVars

(* ---------------------------- specification ---------------------------- *)

vars == << restoreVars, httpVars, tokenVars, importVars, manifestVars,
           pageVars, exportVars, opaVars, oagVars, backupVars >>

\* no client is in use
HttpIdle == InitHttp /\ kind = "governance"

\* no restore is in use
RestoreIdle ==
    /\ InitRestore /\ HAS_BOTO3 /\ planFile = 0 /\ ~racing
    /\ LatestContent(versions) = 1

\* no token-based client is in use
TokenIdle == InitToken /\ client = "oag"

\* create_backup_manifest.py does not run
ManifestIdle == InitManifest /\ output_file = 0

\* backup_state.py does not run
BackupIdle == InitBackup

\* no paginated fetch runs
FetchIdle == InitFetch

\* export_users_to_csv.py does not run
ExportIdle == InitExport /\ xenv = [org_name |-> TRUE, api_token |-> TRUE]

\* import_opa_resources.py does not run
OpaIdle ==
    InitOpa /\ odry /\ oenv = [team |-> TRUE, key |-> TRUE, secret |-> TRUE]

\* the application manager is not in use
OagIdle ==
    /\ InitOag /\ gateway = << >> /\ put_replaces
    /\ config = [label |-> "wiki", attributes |-> << >>, policy |-> FALSE]

\* no importer runs
ImportIdle ==
    InitImport /\ importer = "grants" /\ idry /\ ienv /\ exclude_apps = {}

Next ==
    \/ OtherWrite
    \/ Start
    \/ Exit
    \/ list_state_versions
    \/ restore_head
    \/ restore_download
    \/ restore_upload
    \/ restore_head2
    \/ main_after_restore
    \/ terraform_init
    \/ terraform_plan
    \/ terraform_apply
    \/ main_after_terraform

Init ==
    /\ InitRestore /\ ~racing
    /\ HttpIdle
    /\ TokenIdle
    /\ ImportIdle
    /\ ManifestIdle
    /\ BackupIdle
    /\ FetchIdle
    /\ ExportIdle
    /\ OpaIdle
    /\ OagIdle

\* restore_state.py
Spec == Init /\ [][Next]_vars

NextHttp ==
    \/ Call
    \/ Finish
    \/ make_request

InitClients ==
    /\ RestoreIdle
    /\ InitHttp /\ kind # "entitlement"
    /\ TokenIdle
    /\ ImportIdle
    /\ ManifestIdle
    /\ BackupIdle
    /\ FetchIdle
    /\ ExportIdle
    /\ OpaIdle
    /\ OagIdle

\* _make_request of the four REST clients
SpecHttp == InitClients /\ [][NextHttp]_vars

NextEntitlement ==
    \/ Call
    \/ Finish
    \/ entitlement_request
    \/ entitlement_alt

InitEntitlement ==
    /\ RestoreIdle
    /\ InitHttp /\ kind = "entitlement"
    /\ TokenIdle
    /\ ImportIdle
    /\ ManifestIdle
    /\ BackupIdle
    /\ FetchIdle
    /\ ExportIdle
    /\ OpaIdle
    /\ OagIdle

\* EntitlementSettingsManager
SpecEntitlement == InitEntitlement /\ [][NextEntitlement]_vars

NextToken ==
    \/ AdvanceClock
    \/ health_check
    \/ oag_request
    \/ oag_send
    \/ oag_refresh
    \/ opa_make_request
    \/ opa_send
    \/ TokenFinish

InitTokenClients ==
    /\ RestoreIdle
    /\ HttpIdle
    /\ InitToken
    /\ ImportIdle
    /\ ManifestIdle
    /\ BackupIdle
    /\ FetchIdle
    /\ ExportIdle
    /\ OpaIdle
    /\ OagIdle

\* OAGClient and OPAImporter: the token cache and the 401 retry
SpecToken == InitTokenClients /\ [][NextToken]_vars

NextImport ==
    \/ ImportStart
    \/ import_grant
    \/ import_grants_return
    \/ import_group
    \/ import_member
    \/ import_group_done
    \/ import_memberships_return

InitImporters ==
    /\ RestoreIdle
    /\ HttpIdle
    /\ TokenIdle
    /\ InitImport
    /\ ManifestIdle
    /\ BackupIdle
    /\ FetchIdle
    /\ ExportIdle
    /\ OpaIdle
    /\ OagIdle

\* import_grants and import_memberships
SpecImport == InitImporters /\ [][NextImport]_vars

NextManifest ==
    \/ manifest_main
    \/ manifest_file
    \/ csv_open
    \/ csv_row
    \/ csv_return
    \/ manifest_csv_file
    \/ manifest_write

InitBackupManifest ==
    /\ RestoreIdle
    /\ HttpIdle
    /\ TokenIdle
    /\ ImportIdle
    /\ InitManifest
    /\ BackupIdle
    /\ FetchIdle
    /\ ExportIdle
    /\ OpaIdle
    /\ OagIdle

\* create_backup_manifest.py
SpecManifest == InitBackupManifest /\ [][NextManifest]_vars

NextBackup ==
    \/ OtherWrite
    \/ backup_main
    \/ backup_head
    \/ backup_download
    \/ backup_local
    \/ backup_manifest
    \/ StartFromManifest

InitStateBackup ==
    /\ InitRestore /\ ~racing
    /\ HttpIdle
    /\ TokenIdle
    /\ ImportIdle
    /\ ManifestIdle
    /\ InitBackup
    /\ FetchIdle
    /\ ExportIdle
    /\ OpaIdle
    /\ OagIdle

\* backup_state.py, then restore_state.py --manifest, with other writers of
\* the state object
SpecBackup == InitStateBackup /\ [][NextBackup]_vars

NextFetch ==
    \/ fetch_start
    \/ fetch_page

InitFetches ==
    /\ RestoreIdle
    /\ HttpIdle
    /\ TokenIdle
    /\ ImportIdle
    /\ ManifestIdle
    /\ BackupIdle
    /\ InitFetch
    /\ ExportIdle
    /\ OpaIdle
    /\ OagIdle

\* the paginated fetches
SpecFetch == InitFetches /\ [][NextFetch]_vars

NextExport ==
    \/ export_main
    \/ export_fetch
    \/ export_header
    \/ export_comments
    \/ export_row
    \/ export_return
    \/ ImportStart
    \/ opa_main
    \/ opa_import_all

InitScripts ==
    /\ RestoreIdle
    /\ HttpIdle
    /\ TokenIdle
    /\ InitImport
    /\ ManifestIdle
    /\ BackupIdle
    /\ FetchIdle
    /\ InitExport
    /\ InitOpa
    /\ OagIdle

\* export_users_to_csv.py, and the start of the importers
SpecExport == InitScripts /\ [][NextExport]_vars

NextGateway ==
    \/ oag_deploy
    \/ oag_sync

InitGateway ==
    /\ RestoreIdle
    /\ HttpIdle
    /\ TokenIdle
    /\ ImportIdle
    /\ ManifestIdle
    /\ BackupIdle
    /\ FetchIdle
    /\ ExportIdle
    /\ OpaIdle
    /\ InitOag

\* the application manager of the Access Gateway
SpecGateway == InitGateway /\ [][NextGateway]_vars

InitRacing ==
    /\ InitRestore /\ racing
    /\ HttpIdle
    /\ TokenIdle
    /\ ImportIdle
    /\ ManifestIdle
    /\ BackupIdle
    /\ FetchIdle
    /\ ExportIdle
    /\ OpaIdle
    /\ OagIdle

\* restore_state.py while another writer uploads to the same key
SpecRacing == InitRacing /\ [][Next]_vars

(* ------------------------ claims on restore_state ---------------------- *)

InRestore == pc \in {"download", "upload", "head2", "after_restore"}

Issued(op) == \E i \in 1..Len(ops) : ops[i] = op

\* the terraform phases this invocation started, in order
TfOps == SelectSeq(ops, LAMBDA o : o \in {"init", "plan", "apply"})

\* C1: a non-dry-run restore that returns "restored" leaves a latest version
\* whose content is the target version's, under an id issued by this call
\* (not among the ids that existed, so neither the target's nor the previous
\* current one), and every version that existed before is still there.
C1_RestoreAppends ==
    (pc = "after_restore" /\ ~args.dry_run /\ result.status = "restored") =>
        /\ args.version_id \in Ids(pre)
        /\ current # args.version_id
        /\ LatestContent(versions) = ContentOf(pre, args.version_id)
        /\ LatestId(versions) \notin Ids(pre)
        /\ LatestId(versions) # args.version_id
        /\ LatestId(versions) # current
        /\ IsPrefix(pre, versions)
        /\ Len(versions) = Len(pre) + 1

\* a restore of an older version with another content has just returned
C1_Witness ==
    /\ pc = "after_restore" /\ ~args.dry_run /\ result.status = "restored"
    /\ Len(pre) >= 2
    /\ ContentOf(pre, args.version_id) # LatestContent(pre)

\* C2: when the object's current version id is the target id, the restore
\* returns "already_current" for either value of dry_run, having issued the
\* metadata read only, and the version list is what it was.
C2_AlreadyCurrent ==
    (InRestore /\ LatestId(pre) = args.version_id) =>
        /\ pc = "after_restore"
        /\ result.status = "already_current"
        /\ ops = << "head" >>
        /\ ~tmp_path.exists
        /\ versions = pre

\* a non-dry-run restore to the current version has returned
C2_Witness ==
    /\ pc = "after_restore" /\ ~args.dry_run
    /\ Len(pre) >= 2
    /\ result.status = "already_current"

\* C3: a dry-run invocation issues neither a download nor an upload whatever
\* the current and target ids are; the restore function has issued the
\* metadata read only when it returns, and the version list (so the latest
\* content) stays what it was.
C3_DryRunReadsOnly ==
    (args.dry_run /\ args.mode \in {"restore_state", "full_restore"}) =>
        /\ pc \notin {"download", "upload", "head2"}
        /\ ~Issued("download")
        /\ ~Issued("upload")
        /\ ~tmp_path.exists
        /\ versions = pre
        /\ pc = "after_restore" => ops = << "head" >>

\* a dry run towards an existing older version has returned
C3_Witness ==
    /\ pc = "after_restore" /\ args.dry_run
    /\ result.status = "dry_run"
    /\ args.version_id \in Ids(versions)
    /\ ContentOf(versions, args.version_id) # LatestContent(versions)

\* C4: two consecutive non-dry-run restores to the same target V, the first
\* from a current version other than V, nobody else writing: both return
\* "restored", the latest content is V's after each, and the latest id after
\* the second is neither the id after the first nor V.
C4_RestoreTwice ==
    (/\ pc = "after_restore" /\ ~args.dry_run
     /\ last.status \notin {"none", "raised"} /\ ~last.dry_run
     /\ last.target = args.version_id
     /\ last.before # last.target) =>
        /\ last.status = "restored"
        /\ last.content_ok
        /\ result.status = "restored"
        /\ LatestContent(versions) = ContentOf(versions, args.version_id)
        /\ LatestId(versions) # last.latest
        /\ LatestId(versions) # args.version_id

\* the second of two restores to the same target has returned
C4_Witness ==
    /\ pc = "after_restore" /\ ~args.dry_run
    /\ last.status = "restored" /\ last.target = args.version_id
    /\ result.status = "restored"

TfStatuses == {"init_failed", "plan_failed", "dry_run", "apply_failed", "applied"}

\* INIT -> PLAN -> {DRY_STOP | APPLY}: what is started, and what each exit
\* status leads to
TfSequencing ==
    /\ TfOps \in {<< >>, << "init" >>, << "init", "plan" >>,
                  << "init", "plan", "apply" >>}
    /\ Issued("plan") => rcs.init = 0
    /\ Issued("apply") => rcs.plan = 0 /\ ~args.dry_run
    /\ (rcs.init \notin {0, -1} /\ pc # "terraform") =>
           tf = "init_failed" /\ TfOps = << "init" >>
    /\ (rcs.plan \notin {0, -1} /\ pc # "plan") =>
           tf = "plan_failed" /\ TfOps = << "init", "plan" >>
    /\ tf = "dry_run" => args.dry_run /\ rcs.plan = 0 /\ TfOps = << "init", "plan" >>
    /\ tf = "applied" => rcs.apply = 0
    /\ tf = "apply_failed" => rcs.apply \notin {0, -1}

\* run_terraform_apply was called and is over
TfOver == rcs.isdir # -1 /\ pc \in {"after_terraform", "exit"}

\* C5 as stated: the sequencing, and every call returns one of the five
\* statuses.
C5_Original ==
    /\ TfSequencing
    /\ TfOver => tf \in TfStatuses

\* C5 (amended): the sequencing; every call on an existing terraform
\* directory returns one of the five statuses; a call on a missing directory
\* raises FileNotFoundError before init is run and returns nothing.
C5_TerraformStateMachine ==
    /\ TfSequencing
    /\ (TfOver /\ rcs.isdir = 1) => tf \in TfStatuses /\ raised = ""
    /\ (TfOver /\ rcs.isdir = 0) =>
           /\ tf = "none" /\ raised = "FileNotFoundError"
           /\ TfOps = << >> /\ exitCode = 1

\* an apply after a successful init and plan has returned
C5_Witness ==
    /\ pc = "after_terraform" /\ rcs.isdir = 1
    /\ tf = "applied" /\ TfOps = << "init", "plan", "apply" >>

\* C6: in --full-restore mode terraform init is started only after the state
\* restore returned (no object-store call follows it); without --dry-run
\* only after it returned "restored" or "already_current"; any other outcome
\* of the restore step ends the process with status 1 and no terraform phase
\* started.
C6_RestoreBeforeTerraform ==
    args.mode = "full_restore" =>
        /\ (pc \in {"terraform", "plan", "apply", "after_terraform"}
            \/ TfOps # << >>) =>
               /\ result.status # "none"
               /\ ops[1] = "head"
               /\ ~args.dry_run => result.status \in {"restored", "already_current"}
        /\ \A i \in 1..Len(ops) : \A j \in 1..Len(ops) :
               (i < j /\ ops[i] \in {"init", "plan", "apply"}) =>
                   ops[j] \in {"init", "plan", "apply"}
        /\ (pc = "exit" /\ ~args.dry_run /\ outcome.status # "none"
            /\ result.status \notin {"restored", "already_current"}) =>
               exitCode = 1 /\ TfOps = << >>

\* terraform init runs after a real restore
C6_Witness ==
    /\ args.mode = "full_restore" /\ ~args.dry_run
    /\ result.status = "restored" /\ Issued("init")

\* C7: when run_terraform_apply returns "applied" or "dry_run" the plan file
\* is gone, and an apply only ever consumes the plan written by the plan
\* phase of its own invocation.
C7_PlanFileRemoved ==
    /\ tf \in {"applied", "dry_run"} => planFile = 0
    /\ Issued("apply") => applied = 1

\* a dry-run pass whose plan succeeded has returned
C7_Witness ==
    /\ pc = "after_terraform" /\ tf = "dry_run" /\ rcs.plan = 0
    /\ planFile = 0

(* ----------------------- claims on the REST clients -------------------- *)

All429(rs) == \A i \in 1..Len(rs) : rs[i].status = 429

\* C8: one call of _make_request sends the request at most 3 times; every
\* answer before the last one was a 429; the call returns the last answer,
\* which is the first that is not a 429 or else the third 429, as a value.
C8_AtMostThreeAttempts ==
    fn = "_make_request" =>
        /\ Len(responses) <= 3
        /\ All429(SubSeq(responses, 1, Len(responses) - 1))
        /\ hpc = "send" => All429(responses) /\ Len(responses) < 3
        /\ hpc = "done" =>
               /\ Len(responses) >= 1
               /\ returned.result = "response"
               /\ returned.code = responses[Len(responses)].status
               /\ returned.code = response.status
               /\ returned.code = 429 => Len(responses) = 3

\* three 429 answers in a row: the third is returned
C8_Witness ==
    /\ fn = "_make_request" /\ hpc = "done"
    /\ Len(responses) = 3 /\ returned.code = 429

\* C9 as stated: against a server that answers 429 to every request, a
\* method of EntitlementSettingsManager sends the same request at most 3
\* times.
C9_RetryBounded ==
    (fn \in EntitlementMethods /\ All429(responses)) => Len(responses) <= 3

\* the transport of C10: the clock shows whole seconds at the first attempt,
\* the first two answers are 429 with X-Rate-Limit-Reset = t0 + 2, the third
\* is 200; the call has returned
C10_Scenario ==
    /\ fn = "_make_request" /\ hpc = "done"
    /\ t0 % TicksPerSecond = 0
    /\ Len(responses) = 3
    /\ responses[1] = [status |-> 429, reset |-> t0 \div TicksPerSecond + 2]
    /\ responses[2] = [status |-> 429, reset |-> t0 \div TicksPerSecond + 2]
    /\ responses[3].status = 200

\* C10 as stated: the 200 response is returned and the time slept is between
\* 2 and 3 seconds.
C10_Original ==
    C10_Scenario =>
        /\ returned = [code |-> 200, result |-> "response"]
        /\ slept >= 2 * TicksPerSecond
        /\ slept <= 3 * TicksPerSecond

\* C10 (amended): the 200 response is returned and the time slept is 4
\* seconds, 3 after the first 429 (to the reset plus the margin of one
\* second) and 1 after the second (the least wait); an OktaClient whose
\* tracked remaining quota is below 10 at the 200 response sleeps half a
\* second more.
C10_BackoffSleepsFourSeconds ==
    C10_Scenario =>
        /\ returned = [code |-> 200, result |-> "response"]
        /\ slept = 4 * TicksPerSecond
                   + (IF tracks_remaining(kind) /\ rate_limit_remaining < 10
                      THEN 1 ELSE 0)
        /\ clock = t0 + slept

\* the scenario of C10 has been played to a client
C10_Witness == C10_Scenario /\ slept = 4 * TicksPerSecond

(* -------------------- claims on the token-based clients ---------------- *)

\* the token function was called right after a token request of it succeeded
RightAfterFetch ==
    /\ lastGet.at # Absent /\ ~lastGet.force
    /\ prevGet.at = lastGet.at
    /\ prevGet.requested /\ prevGet.ok

\* the token function sends a token request exactly when no token is cached,
\* or now >= expiry - 60, or (OAG) force_refresh is set; otherwise it returns
\* the cached token and leaves the cache as it is
TokenRequestRule ==
    lastGet.at # Absent =>
        /\ lastGet.requested <=>
               \/ lastGet.before = NoToken
               \/ lastGet.at >= lastGet.expiry - 60
               \/ client = "oag" /\ lastGet.force
        /\ ~lastGet.requested =>
               /\ lastGet.ok
               /\ lastGet.token = lastGet.before
               /\ access_token = lastGet.before
        /\ Len(SelectSeq(sent, LAMBDA r : r \in {"token", "token_forced"})) <=
               IF tfn = "_request" THEN 3 ELSE 1

\* C11 as stated: the request rule, and right after a successful token fetch
\* the next non-forced call returns the same token without a token request.
C11_Original ==
    /\ TokenRequestRule
    /\ RightAfterFetch =>
           ~lastGet.requested /\ lastGet.token = prevGet.token

\* C11: a call of the token function sends a token request only if no token
\* is cached, or now >= expiry - 60, or (OAG) force_refresh is set, and
\* otherwise returns the cached token with no request; right after a
\* successful fetch of a token whose response carried a token and a lifetime
\* of more than 60 seconds, the next non-forced call returns that token
\* without a token request.
C11_TokenCache ==
    /\ TokenRequestRule
    /\ (RightAfterFetch /\ prevGet.token # NoToken /\ prevGet.life > 60) =>
           ~lastGet.requested /\ lastGet.token = prevGet.token

\* a non-forced call right after a fetch was served from the cache
C11_Witness ==
    /\ RightAfterFetch /\ prevGet.token # NoToken /\ prevGet.life > 60
    /\ ~lastGet.requested /\ lastGet.token = prevGet.token

All401(as) == \A i \in 1..Len(as) : as[i] = 401

Forced(rs) == Len(SelectSeq(rs, LAMBDA r : r = "token_forced"))

\* what one call of _request sends, whatever the endpoint answers: at most
\* two API requests, the second only after a 401 and one forced refresh
RetryOnce ==
    tfn = "_request" =>
        /\ Len(answers) <= 2
        /\ Forced(sent) <= 1
        /\ Len(answers) = 2 =>
               /\ answers[1] = 401
               /\ Forced(sent) = 1
               /\ \E i \in 1..Len(sent) :
                    /\ sent[i] = "token_forced"
                    /\ Len(SelectSeq(SubSeq(sent, 1, i), LAMBDA r : r = "api")) = 1
        /\ Forced(sent) = 1 => Len(answers) >= 1 /\ answers[1] = 401
        /\ (tpc = "done" /\ tret.how = "response") =>
               /\ Len(answers) >= 1
               /\ tret.status = answers[Len(answers)]
               /\ All401(answers) => Len(answers) = 2

\* C12 as stated: against an endpoint that answers 401 to every request a
\* call of _request sends exactly 2 requests, forces one refresh between them
\* and returns the second 401.
C12_Original ==
    /\ RetryOnce
    /\ (tfn = "_request" /\ tpc = "done" /\ Len(answers) >= 1
        /\ All401(answers)) =>
           /\ Len(answers) = 2
           /\ Forced(sent) = 1
           /\ tret = [how |-> "response", status |-> 401]

\* C12: _request retries a 401 at most once.  Against an endpoint that
\* answers 401 to every request, a call whose token requests all succeed
\* sends exactly 2 requests, forces exactly one refresh between them and
\* returns the second 401; a call whose token request fails raises
\* OAGAuthenticationError instead.  A 401 on the retried request triggers no
\* further refresh or retry.
C12_RetryOnce ==
    /\ RetryOnce
    /\ (tfn = "_request" /\ tpc = "done" /\ Len(answers) >= 1
        /\ All401(answers)) =>
           \/ /\ Len(answers) = 2
              /\ Forced(sent) = 1
              /\ tret = [how |-> "response", status |-> 401]
           \/ /\ tret.how = "OAGAuthenticationError"
              /\ ~lastGet.ok
              /\ Len(answers) = 1

\* a call answered 401 twice has returned
C12_Witness ==
    /\ tfn = "_request" /\ tpc = "done"
    /\ answers = << 401, 401 >>
    /\ tret = [how |-> "response", status |-> 401]

(* ------------------------- claims on the importers --------------------- *)

\* the pass got past the credentials check and made its lookups
PassRan == http.get > 0

PassOver == ipc = "exited" /\ PassRan

\* C13: with dry-run enabled an importer sends no POST and no PUT, whatever
\* the input and the target tenant: create_grant returns before any request
\* and add_user_to_group is not called; only the GET lookups are sent.
C13_DryRunSendsNoMutation ==
    idry =>
        /\ http.post = 0
        /\ http.put = 0
        /\ ~called.sent
        /\ importer = "memberships" => ~called.made

\* a dry-run pass of import_grants reached create_grant
C13_Witness ==
    /\ idry /\ importer = "grants"
    /\ called.made /\ results.created > 0
    /\ http = [get |-> 4, post |-> 0, put |-> 0]

\* C14: the counters of a pass without dry-run in which every mutating call
\* succeeded equal, counter by counter, those of a dry-run pass over the same
\* input and target tenant.
C14_DryRunCountsAsSuccess ==
    (PassOver /\ ~idry /\ allok) => results = shadow

SumOf(r) == r.created + r.exists + r.skipped + r.errors + r.excluded

\* the bundle name or the principal of a grant is not in the target tenant
Unresolved(g) ==
    \/ g.bundle_name \notin {"Admin Bundle"}
    \/ g.principal_type = "GROUP" /\ g.principal_name \notin {"Engineering"}
    \/ g.principal_type = "USER"
       /\ lower(g.principal_name) \notin {"alice smith", "alice@x"}
    \/ g.principal_type \notin {"GROUP", "USER"}

\* C15: import_grants processes every grant of the input exactly once and a
\* grant it cannot resolve does not abort the batch: such a grant is counted
\* as skipped with no create_grant call, the loop goes on, and at the end
\* created + exists + skipped + errors + excluded is the number of grants.
C15_EveryGrantOnce ==
    importer = "grants" =>
        /\ idx <= total
        /\ SumOf(results) = idx
        /\ PassOver => idx = total
        /\ http.post <= results.created + results.exists + results.errors
        /\ item.kind = "grant" =>
               /\ (Unresolved(item.grant)
                   /\ item.grant.target_app_name \notin exclude_apps) =>
                      item.counter = "skipped" /\ ~called.made
               /\ item.counter \in {"skipped", "excluded"} <=> ~called.made

\* a skipped grant was followed by one that was created
C15_Witness ==
    /\ importer = "grants" /\ PassOver
    /\ total = 2 /\ results.skipped = 1 /\ results.created = 1
    /\ item.counter = "created"

\* C16: import_grants returns 1 exactly when a create_grant call yielded
\* 'error'; skipped, excluded and already-existing grants leave it 0.
C16_GrantsExitStatus ==
    (importer = "grants" /\ PassOver) =>
        /\ iret \in {0, 1}
        /\ iret = 1 <=> sawError
        /\ sawError <=> results.errors > 0

\* a pass with a skipped and an already-existing grant returned 0
C16_Witness ==
    /\ importer = "grants" /\ PassOver /\ ~idry
    /\ results.exists = 1 /\ results.skipped = 1
    /\ iret = 0

\* C17: a run of the group-membership importer without dry-run in which an
\* add_user_to_group call failed ends with a non-zero exit status.
C17_MembershipErrorsFailTheRun ==
    (importer = "memberships" /\ PassOver /\ ~idry
     /\ results.assignments_failed > 0) => iret # 0

\* C18: without dry-run import_memberships calls add_user_to_group exactly
\* once for each member email of the input whose group is in the target and
\* whose lower-cased email is in the target, with that group and that user,
\* and for no other; users_matched is the number of such entries and
\* users_missing the number of member emails of found groups that are not in
\* the target.
C18_AssignmentsMatchPairs ==
    importer = "memberships" =>
        /\ item.kind = "group" => ~called.made
        /\ item.kind = "member" =>
               /\ called.made <=>
                      /\ ~idry
                      /\ item.group \in {"Engineering", "Sales"}
                      /\ lower(item.email) \in {"alice@x", "bob@x"}
               /\ called.made =>
                      called.args = << IdOf(item.group),
                                       IdOf(lower(item.email)) >>
        /\ results.users_matched = pairs.expected
        /\ results.users_missing = pairs.absent
        /\ ~idry => http.put = pairs.expected
        /\ results.assignments_made + results.assignments_failed = http.put

\* three member emails, two of them in the target: two assignment calls
C18_Witness ==
    /\ importer = "memberships" /\ PassOver /\ ~idry
    /\ results.users_matched = 2 /\ results.users_missing = 1
    /\ http.put = 2

(* --------------------- claims on the backup manifest ------------------- *)

RECURSIVE SumCounts(_)
SumCounts(fs) ==
    IF fs = << >> THEN 0 ELSE fs[1].count + SumCounts(Tail(fs))

\* the names of the first x expected files that exist, in list order
PresentAmong(x) ==
    LET Name(y) == expected_files[y].file
        RECURSIVE Pick(_)
        Pick(y) == IF y > x THEN << >>
                   ELSE IF Name(y) \in present
                        THEN << Name(y) >> \o Pick(y + 1)
                        ELSE Pick(y + 1)
    IN  Pick(1)

\* create_manifest is between two expected files or has written the manifest
BetweenFiles == mpc = "files" \/ (mpc = "exit" /\ mexit = 0)

\* C19: 'files' holds one descriptor for exactly the expected files that
\* exist, main files then oig/ files in list order; an absent file gives no
\* entry and no error; 'resources' has one entry per listed file;
\* summary.total_files is the length of 'files' and summary.total_resources
\* the sum of the listed files' counts.
C19_ManifestListsPresentFiles ==
    /\ BetweenFiles =>
          /\ [ x \in 1..Len(manifest.files) |-> manifest.files[x].file ]
                 = PresentAmong(pos - 1)
          /\ Cardinality(DOMAIN manifest.resources) = Len(manifest.files)
          /\ \A x \in 1..Len(manifest.files) :
                LET d == manifest.files[x]
                IN  /\ resource_name(d.file) \in DOMAIN manifest.resources
                    /\ manifest.resources[resource_name(d.file)].file = d.file
                    /\ manifest.resources[resource_name(d.file)].count = d.count
          /\ manifest.total_files = Len(manifest.files)
          /\ manifest.total_resources = SumCounts(manifest.files)
    /\ mpc = "exit" =>
          IF mexit = 0
          THEN /\ pos = Len(expected_files) + 1
               /\ manifest.summary.total_files = Len(manifest.files)
               /\ manifest.summary.total_resources = SumCounts(manifest.files)
          ELSE /\ mexit = 1
               /\ mraised = NoRaise => manifest = NoManifest /\ present = {}

\* a manifest was written for a directory that lacks some expected files
C19_Witness ==
    /\ mpc = "exit" /\ mexit = 0
    /\ present = {"users.csv", "memberships.json", "oig/reviews.json"}
    /\ manifest.summary.total_files = 3

InCsv == mpc \in {"csv", "counted"}

\* C20 as stated: the count is the number of rows minus the rows with an
\* empty first field, the rows whose first field starts with '#' and the
\* rows whose first field is 'email'.
C20_Original ==
    InCsv => count = read.rows - (read.blank + read.empty_first)
                               - read.hash - read.header

\* C20: count_csv_rows returns the number of rows minus exactly these: rows
\* without any field (blank lines), rows whose first field starts with '#',
\* and rows whose first field is the literal 'email'; every other row is
\* counted, a row with an empty first field included.
C20_CountCsvRows ==
    InCsv => count = read.rows - read.blank - read.hash - read.header

\* 1 header + 1 comment + 3 data rows give 3
C20_Witness ==
    /\ mpc = "counted"
    /\ read = [rows |-> 5, blank |-> 0, empty_first |-> 0, hash |-> 1,
               header |-> 1]
    /\ count = 3


ReadFailed == mraised.exc # "" /\ mraised.at # "output"

\* C21: when reading, hashing or counting a present expected file raises,
\* create_manifest raises (the process ends with status 1) and the manifest
\* output file is neither created nor modified.
C21_FailFastNoPartialManifest ==
    ReadFailed =>
        /\ mpc = "exit"
        /\ mexit = 1
        /\ output_file # 1
        /\ manifest.summary = NoManifest.summary

\* a present .json file that is no valid JSON, after two files were listed,
\* with a manifest file of an earlier run in place
C21_Witness ==
    /\ mraised = [exc |-> "JSONDecodeError", at |-> "app_assignments.json"]
    /\ Len(manifest.files) = 2
    /\ output_file = -1
    /\ mexit = 1

(* ----------------------- claims on backup_state ----------------------- *)

\* the terraform_state section of the manifest backup_state.py wrote
Written == from_json(MANIFEST).terraform_state

\* backup_state.py wrote a manifest of a downloaded S3 state
HashedBackup ==
    /\ MANIFEST # NoFile
    /\ bargs.source = "s3"
    /\ "backup_sha256" \in DOMAIN Written

\* C22: in S3 mode the version id is captured by a metadata-only read before
\* any download, the download asks for exactly that id, and the manifest is
\* written last; whatever other writers add to the state object in between,
\* the manifest's backup_sha256 is the hash of the content stored under the
\* manifest's version_id.
C22_BackupHashMatchesVersion ==
    /\ bargs.source = "s3" =>
          /\ bops \in {<< >>, << "head" >>, << "head", "download" >>}
          /\ MANIFEST # NoFile => bpc = "exit" /\ bexit = 0
    /\ HashedBackup =>
          /\ Written.version_id = LatestId(bseen.head)
          /\ Written.version_id \in Ids(versions)
          /\ Written.backup_sha256
                = sha256(ContentOf(versions, Written.version_id))
          /\ state_file.content = ContentOf(versions, Written.version_id)

\* another writer created a version with other content between the capture
\* and the download
C22_Witness ==
    /\ HashedBackup
    /\ Len(bseen.download) = Len(bseen.head) + 1
    /\ LatestContent(bseen.download) # LatestContent(bseen.head)

(* --------------------- claims on paginated fetches --------------------- *)

\* the answers to the requests of this fetch
Statuses == [ x \in 1..Len(requested) |-> requested[x].status ]

\* the requests of this fetch that were answered 200
Served == { x \in 1..Len(requested) : requested[x].status = 200 }

\* the page whose request was answered last
LastPage == requested[Len(requested)].page

\* what holds of every fetch: pages are asked for in order and never past
\* the first page without a 'next' link, the records are collected in page
\* order, and a fetch whose pages are all OK returns all of them after one
\* request per page
FetchInOrder ==
    /\ \A x \in 1..Len(requested) : requested[x].page \in 1..chain
    /\ fetched = pages_upto(Cardinality(Served))
    /\ fpc = "loop" => url = Cardinality(Served) + 1 /\ url <= chain
    /\ fpc = "done" /\ fret.status = 200 =>
          /\ fret.how = "return"
          /\ fret.value = pages_upto(chain)
          /\ Cardinality(Served) = chain
    /\ Served = 1..Len(requested) => Len(requested) <= chain

\* C23 as stated: a page that is not OK ends every fetch with the records of
\* the pages before it.
C23_Original ==
    /\ FetchInOrder
    /\ fpc = "done" /\ fret.status # 200 =>
          /\ fret.how = "return"
          /\ fret.value = pages_upto(LastPage - 1)

\* C23: every paginated fetch over a finite chain of 'next' links returns
\* the records of all pages in page order when every page is OK and stops at
\* the first page without a 'next' link.  When page k is not OK, get_all_users,
\* get_groups and get_entitlement_bundles return the records of pages 1..k-1;
\* get_all_grants does so too unless the status is 404, for which it returns
\* the empty list; get_all_apps asks again after a 429 and raises on every
\* other status.
C23_PaginatedFetch ==
    /\ FetchInOrder
    /\ fpc = "done" /\ fret.status # 200 =>
          CASE fetcher = "get_all_apps" ->
                 fret.how = "raise" /\ fret.status # 429
            [] fetcher = "get_all_grants" /\ fret.status = 404 ->
                 fret.how = "return" /\ fret.value = << >>
            [] OTHER ->
                 fret.how = "return" /\ fret.value = pages_upto(LastPage - 1)

\* get_all_users over three pages with the third page answered 500
C23_Witness ==
    /\ fpc = "done"
    /\ fetcher = "get_all_users"
    /\ chain = 3
    /\ Statuses = << 200, 200, 500 >>
    /\ fret.value = << 1, 2 >>

(* ------------------ claims on export_users_to_csv ---------------------- *)

\* the positions of the lines of one kind in the output file
LinesOf(which) == { x \in 1..Len(csv_file) : csv_file[x].kind = which }

\* every line of the first kind comes before every line of the second
Before(first, second) ==
    \A x \in LinesOf(first), y \in LinesOf(second) : x < y

\* C24 as stated: the comment lines come before the header row, and the
\* header row before every data row.
C24_Original ==
    Before("comment", "header") /\ Before("header", "data")

\* C24: in the file export_users_to_csv writes, the header row
\* 'email,first_name,...' is the first line, the three '#'-prefixed comment
\* lines (org, date, count) follow it, and both come before every data row.
C24_HeaderThenCommentsThenRows ==
    /\ Before("header", "comment")
    /\ Before("header", "data")
    /\ Before("comment", "data")
    /\ csv_file # NoFile => csv_file[1] = header_row
    /\ xpc \in {"rows", "exit"} /\ csv_file # NoFile =>
          /\ SubSeq(csv_file, 2, 1 + Len(comment_lines)) = comment_lines
          /\ Cardinality(LinesOf("header")) = 1
    /\ xexit = 0 => Cardinality(LinesOf("data")) = users

\* a finished export of two users
C24_Witness ==
    /\ xexit = 0
    /\ users = 2
    /\ Len(csv_file) = 6
    /\ csv_file[6].kind = "data"

(* --------------------- claims on the credential checks ------------------ *)

\* C25: a missing required credential (OKTA_ORG_NAME or OKTA_API_TOKEN for
\* the exporters and importers; team, key or secret for the privileged-access
\* importer) is detected before any network call: the process exits with
\* status 1 without having sent an HTTP request or written an output file.
C25_ConfigErrorsBeforeNetwork ==
    /\ (\E v \in DOMAIN xenv : ~xenv[v]) /\ xpc # "main" =>
          /\ xpc = "exit" /\ xexit = 1
          /\ xsent = 0
          /\ csv_file = NoFile
    /\ ~ienv /\ ipc # "idle" =>
          /\ ipc = "exited" /\ iret = 1
          /\ http = NoHttp
    /\ (\E v \in DOMAIN oenv : ~oenv[v]) /\ opc # "main" =>
          /\ opc = "exit" /\ oexit = 1
          /\ osent = 0
          /\ ~ofiles

\* the three programs were started without the API token, without the
\* credentials and without the secret
C25_Witness ==
    /\ xpc = "exit" /\ xenv = [org_name |-> TRUE, api_token |-> FALSE]
    /\ ipc = "exited" /\ ~ienv
    /\ opc = "exit" /\ oenv = [team |-> TRUE, key |-> TRUE, secret |-> FALSE]
    /\ ~odry

(* ------------------ claims on the application manager ------------------- *)

\* the last call of the manager was deploy_application
Deployed == mcall.fn = "deploy_application"

\* the action deploy_application has to report for the gateway it found
ExpectedAction ==
    IF config.label \in DOMAIN mcall.before THEN "update" ELSE "create"

Synced == mcall.fn = "sync_attributes" /\ mcall.how = "return"

\* the names the configuration lists
DesiredNames ==
    { config.attributes[x].name : x \in 1..Len(config.attributes) }

\* C29: after a sync_attributes that returned, the attribute names of the
\* application are the desired names; a second sync with the same desired
\* list sends no add, update or delete request and returns empty added,
\* updated and deleted lists.
C29_SyncConvergesAndIsIdempotent ==
    /\ Synced => DOMAIN gateway[config.label] = DesiredNames
    /\ (Synced /\ mprev.fn = "sync_attributes" /\ mprev.how = "return") =>
          /\ mcall.requests.post = 0
          /\ mcall.requests.put = 0
          /\ mcall.requests.delete = 0
          /\ mcall.attributes = NoAttributes

(* ------------- claims on a restore that races another writer ------------ *)

\* C27: while another writer may write the state object at any point, the
\* 'new_version' a restore reports is the id of the version its own upload
\* created, that version holds the content of the target version, and
\* 'previous_version' is the version that was latest just before the upload.
C27_RestoreReportsOwnUpload ==
    (pc = "after_restore" /\ result.status = "restored") =>
        /\ result.new_version = uploaded.id
        /\ ContentOf(versions, uploaded.id)
              = ContentOf(versions, args.version_id)
        /\ result.previous_version = uploaded.before

(* ------------- claims on the manifest from backup to restore ------------ *)

\* backup_state.py wrote a manifest in the given mode and returned 0
BackedUp(source) == bpc = "exit" /\ bexit = 0 /\ bargs.source = source

\* restore_state.py was started with --manifest
FromManifest == pc # "idle"

\* C28: a manifest written by backup_state.py in S3 mode is accepted by
\* load_manifest (backup_type 'state-based', terraform_state present, source
\* 's3'), and the bucket, key, region and version id restore_state.main
\* resolves from it are the ones captured by the backup; with a manifest of
\* a local state the restore exits with status 1 before any call of the
\* object store.
C28_ManifestRoundTrip ==
    /\ BackedUp("s3") =>
          /\ load_manifest(MANIFEST) = ""
          /\ from_json(MANIFEST).backup_type = "state-based"
          /\ from_json(MANIFEST).terraform_state = state_info
          /\ state_info.source = "s3"
    /\ (BackedUp("s3") /\ FromManifest) =>
          /\ raised = "" /\ pc \in {"restore", "list"}
          /\ resolved = [bucket |-> STATE_BUCKET, key |-> STATE_KEY,
                         region |-> bargs.region,
                         version_id |-> LatestId(bseen.head)]
          /\ args.version_id = LatestId(bseen.head)
    /\ (BackedUp("local") /\ FromManifest) =>
          /\ pc = "exit" /\ exitCode = 1
          /\ ops = << >>
          /\ resolved = NoResolved

\* a restore started from the manifest of a backup taken in another region
\* than the default, after another writer wrote the object
C28_Witness ==
    /\ BackedUp("s3") /\ FromManifest
    /\ resolved.region = "eu-west-1"
    /\ resolved.version_id = 2
    /\ Len(versions) = 2

(* ------------------- claims on a download that fails ------------------- *)

\* the invocation ended because fetching the target version raised
DownloadFailed ==
    /\ pc = "exit" /\ raised = "ClientError"
    /\ ops # << >> /\ ops[Len(ops)] = "download"

\* C30: when fetching the target version fails in a restore that is not a
\* dry run, no upload is sent, the version list and the latest content of
\* the object are what they were, the temporary file is removed, and the
\* exception leaves the function: no 'restored' status is returned and the
\* process ends with status 1.
C30_FailedDownloadLeavesStore ==
    DownloadFailed =>
        /\ ~args.dry_run
        /\ ~Issued("upload")
        /\ versions = pre
        /\ LatestContent(versions) = LatestContent(pre)
        /\ ~tmp_path.exists
        /\ result = NoResult
        /\ outcome.status = "raised"
        /\ exitCode = 1

\* the download failed because the object has no version with the target id
C30_Witness ==
    /\ DownloadFailed
    /\ args.version_id \notin Ids(versions)
    /\ Len(versions) = 2

====
